---- MODULE Spec2Model ----
(***************************************************************************)
(* A model of parts of v2ray-core:                                         *)
(*   - core.Instance: the feature registry and its Start/Close protocol    *)
(*   - inbound.Manager: the tagged registry of inbound handlers            *)
(*   - mux.ClientManager / mux.Client: session multiplexing (client side)  *)
(*   - mux.Client.fetchInput: the frames of the sessions of one stream     *)
(*   - mux.Client: the Process, fetchOutput and monitor tasks of a Client  *)
(*   - mux.Server / mux.ServerWorker: the frames read on the server side   *)
(*   - crypto: the AEAD nonce generator and the authenticated chunk codec  *)
(*   - shadowsocks: the TCP request header and the UDP packet              *)
(*   - socks.Server: the policy and the transport of one connection        *)
(*   - outbound.Handler: one Dispatch call and the ends of its ray         *)
(* Each part has its own specification over the shared variables; the      *)
(* variables of the other parts stay at their initial values.              *)
(***************************************************************************)
EXTENDS Integers, Sequences, FiniteSets, TLC

\* ------------------------------------------------------------------------
\* Bounds of the model
\* ------------------------------------------------------------------------
\* RegisterFeature calls made on one Instance
MaxFeatures == 3
\* Instance.Start calls made on one Instance
MaxStarts == 2
\* Instance.Close calls made on one Instance
MaxCloses == 2
\* AddHandler calls made on one inbound Manager
MaxHandlers == 3
\* Manager.Start and Manager.Close calls made on one inbound Manager
MaxManagerCalls == 2
\* ClientManager.Dispatch calls made on one ClientManager
MaxDispatch == 2
\* the largest MultiplexingConfig.Concurrency tried
MaxConcurrency == 2
\* how far below maxTotal the session count of a long-lived Client starts
Headroom == 1
\* the idle ticks of one monitor that are counted
TickCap == 3
\* sessions of one Client whose fetchInput tasks run
MaxSessions == 2
\* MultiBuffers read from the inputs of the sessions of one Client
MaxChunks == 3

\* Server.Dispatch calls.
MaxServerDispatch == 4

\* Frames one ServerWorker reads from its stream.
MaxFrames == 3

\* bytes of a nonce of the model
NonceSize == 2
\* values of a byte of the model
ByteMod == 3
\* nonces the generator gives after it has gone once round
NonceWrap == 2
\* frames written and not yet read while the nonces go round
MaxInFlight == 2
\* MultiBuffers given to one AuthenticationWriter
MaxWrites == 3
\* bytes of one chunk of a stream: buf.Size less overhead and size bytes
PayloadSize == 2
\* bytes the authenticator adds to a sealed chunk
Overhead == 1

\* bytes of the MAC of one-time authentication of the model
AuthSize == 1
\* bytes of one header or packet changed on the way
MaxChanges == 1

\* The longest header or packet a peer makes by hand: type, IPv6 address,
\* port, payload and MAC.
MaxHeader == 1 + 16 + 2 + 2 + AuthSize

\* user levels of a socks.Server above 0
MaxLevel == 1
\* seconds of the legacy Timeout of a socks.Server
MaxTimeout == 2

\* The frames fetchOutput reads from the inbound ray of one Client.
MaxDownFrames == 2

\* buffers moved each way through the ray of one Handler.Dispatch call
MaxMoved == 2

\* buffers the two copies of one SOCKS connection move
MaxCopyMoves == 2
\* seconds without activity on a SOCKS connection that are counted one by one
MaxQuiet == 2

\* Seal calls an Authenticator serves before the one that fails
MaxSealed == 2
\* MultiBuffers written through a codec with a fault
MaxFaultWrites == 2

\* ------------------------------------------------------------------------
\* core.Instance
\* ------------------------------------------------------------------------
VARIABLES
    features,   \* Instance.features: the registered features, in order
    running,    \* Instance.running
    slots,      \* the backing of the eight sync* slot proxies (0: none set)
    access,     \* Instance.access: "free", or the call that holds it
    pending,    \* RegisterFeature calls past the switch, before the lock
    pcStart,    \* Instance.Start: index of the range loop (0: no call)
    pcClose,    \* Instance.Close: index of the range loop (0: no call)
    starts,     \* Instance.Start calls so far
    closes,     \* Instance.Close calls so far
    capOf,      \* the capability tag each RegisterFeature call was given
    startCalls, \* the Feature.Start() calls of the latest Instance.Start
    startRes,   \* what the latest Instance.Start returned ("none": not yet)
    closeCalls, \* the Feature.Close() calls of the latest Instance.Close
    closeRes,   \* what the latest Instance.Close returned ("none": not yet)
    closeFailed, \* whether some Feature.Close() of the latest Close failed
    startCount, \* per feature, how often its Start() was invoked
    regRet,     \* per feature, what its RegisterFeature call returned
    regStart    \* per feature, what the Start() inside RegisterFeature returned

instVars == <<features, running, slots, access, pending, pcStart, pcClose,
              starts, closes, capOf, startCalls, startRes, closeCalls,
              closeRes, closeFailed, startCount, regRet, regStart>>

\* The eight capabilities RegisterFeature's type switch knows.
Capabilities ==
    {"DNSClient", "PolicyManager", "Router", "Dispatcher",
     "InboundHandlerManager", "OutboundHandlerManager", "Clock", "Commander"}

\* What the `feature` argument of RegisterFeature can be: one of the eight,
\* or any other type.
Tags == Capabilities \cup {"Other"}

\* The tags used where the slots are not what is looked at.
LifecycleTags == {"Dispatcher"}

ErrName(err) == IF err THEN "err" ELSE "nil"

\* The type switch of RegisterFeature: s.<slot>.Set(instance) for a known
\* capability, nothing otherwise.
SlotSet_FirstWins(s, tag, id) ==
    IF tag \in Capabilities /\ s[tag] = 0 THEN [s EXCEPT ![tag] = id] ELSE s

SlotSet(s, tag, id) ==
    IF tag \in Capabilities THEN [s EXCEPT ![tag] = id] ELSE s

\* `if s.running { return instance.Start() }`
StartsOnRegister_Never(r) == FALSE

StartsOnRegister(r) == r

InitInstance ==
    /\ features = <<>>
    /\ running = FALSE
    /\ slots = [c \in Capabilities |-> 0]
    /\ access = "free"
    /\ pending = {}
    /\ pcStart = 0
    /\ pcClose = 0
    /\ starts = 0
    /\ closes = 0
    /\ capOf = <<>>
    /\ startCalls = <<>>
    /\ startRes = "none"
    /\ closeCalls = <<>>
    /\ closeRes = "none"
    /\ closeFailed = FALSE
    /\ startCount = <<>>
    /\ regRet = <<>>
    /\ regStart = <<>>

\* RegisterFeature, up to the lock: the type switch installs the slot backing.
\* The feature registered by the k-th call is feature k.
RegisterFeatureSet(tag) ==
    /\ Len(capOf) < MaxFeatures
    /\ slots' = SlotSet(slots, tag, Len(capOf) + 1)
    /\ capOf' = Append(capOf, tag)
    /\ pending' = pending \cup {Len(capOf) + 1}
    /\ startCount' = Append(startCount, 0)
    /\ regRet' = Append(regRet, "pending")
    /\ regStart' = Append(regStart, "none")
    /\ UNCHANGED <<features, running, access, pcStart, pcClose, starts,
                   closes, startCalls, startRes, closeCalls, closeRes, closeFailed>>

\* RegisterFeature, the critical section: append, and start if running.
\* err is what instance.Start() returns when it is called.
RegisterFeatureLocked_NoLock(id, err) ==
    /\ id \in pending
    /\ features' = Append(features, id)
    /\ pending' = pending \ {id}
    /\ IF StartsOnRegister(running)
         THEN /\ startCount' = [startCount EXCEPT ![id] = @ + 1]
              /\ regStart' = [regStart EXCEPT ![id] = ErrName(err)]
              /\ regRet' = [regRet EXCEPT ![id] = ErrName(err)]
         ELSE /\ err = FALSE
              /\ startCount' = startCount
              /\ regStart' = regStart
              /\ regRet' = [regRet EXCEPT ![id] = "nil"]
    /\ UNCHANGED <<running, slots, access, pcStart, pcClose, starts, closes,
                   capOf, startCalls, startRes, closeCalls, closeRes, closeFailed>>

RegisterFeatureLocked(id, err) ==
    /\ access = "free"
    /\ RegisterFeatureLocked_NoLock(id, err)

\* Instance.Start: lock, running = true, then the range loop.
InstanceStartBegin ==
    /\ access = "free"
    /\ starts < MaxStarts
    /\ access' = "Start"
    /\ running' = TRUE
    /\ starts' = starts + 1
    /\ pcStart' = 1
    /\ startCalls' = <<>>
    /\ startRes' = "none"
    /\ UNCHANGED <<features, slots, pending, pcClose, closes, capOf,
                   closeCalls, closeRes, closeFailed, startCount,
                   regRet, regStart>>

\* Whether the loop of Instance.Start stops at a feature whose Start failed.
StartStopsOnError_Never(err) == FALSE

StartStopsOnError(err) == err

\* One iteration of the loop: f.Start(), returning its error if any.
InstanceStartStep(err) ==
    /\ access = "Start"
    /\ pcStart \in 1..Len(features)
    /\ startCalls' = Append(startCalls, [f |-> features[pcStart], err |-> err])
    /\ startCount' = [startCount EXCEPT ![features[pcStart]] = @ + 1]
    /\ IF StartStopsOnError(err)
         THEN /\ startRes' = "err"
              /\ pcStart' = 0
              /\ access' = "free"
         ELSE /\ startRes' = startRes
              /\ pcStart' = pcStart + 1
              /\ access' = access
    /\ UNCHANGED <<features, running, slots, pending, pcClose, starts, closes,
                   capOf, closeCalls, closeRes, closeFailed, regRet, regStart>>

\* The loop is over: return nil.
InstanceStartReturn ==
    /\ access = "Start"
    /\ pcStart = Len(features) + 1
    /\ startRes' = "nil"
    /\ pcStart' = 0
    /\ access' = "free"
    /\ UNCHANGED <<features, running, slots, pending, pcClose, starts, closes,
                   capOf, startCalls, closeCalls, closeRes, closeFailed,
                   startCount, regRet, regStart>>

\* Instance.Close: lock, running = false, then the range loop.
InstanceCloseBegin_NoLock ==
    /\ closes < MaxCloses
    /\ pcClose = 0
    /\ access' = "Close"
    /\ running' = FALSE
    /\ closes' = closes + 1
    /\ pcClose' = 1
    /\ closeCalls' = <<>>
    /\ closeRes' = "none"
    /\ closeFailed' = FALSE
    /\ UNCHANGED <<features, slots, pending, pcStart, starts, capOf,
                   startCalls, startRes, startCount, regRet, regStart>>

InstanceCloseBegin ==
    /\ access = "free"
    /\ InstanceCloseBegin_NoLock

\* Whether the loop of Instance.Close stops at a feature whose Close failed.
CloseStopsOnError_Always(err) == err

CloseStopsOnError(err) == FALSE

\* One iteration of the loop: f.Close(), its result dropped.
InstanceCloseStep(err) ==
    /\ access = "Close"
    /\ pcClose \in 1..Len(features)
    /\ closeCalls' = Append(closeCalls, features[pcClose])
    /\ closeFailed' = (closeFailed \/ err)
    /\ IF CloseStopsOnError(err)
         THEN /\ closeRes' = "err"
              /\ pcClose' = 0
              /\ access' = "free"
         ELSE /\ closeRes' = closeRes
              /\ pcClose' = pcClose + 1
              /\ access' = access
    /\ UNCHANGED <<features, running, slots, pending, pcStart, starts, closes,
                   capOf, startCalls, startRes, startCount, regRet, regStart>>

\* The loop is over: return nil.
InstanceCloseReturn ==
    /\ access = "Close"
    /\ pcClose = Len(features) + 1
    /\ closeRes' = "nil"
    /\ pcClose' = 0
    /\ access' = "free"
    /\ UNCHANGED <<features, running, slots, pending, pcStart, starts, closes,
                   capOf, startCalls, startRes, closeCalls, closeFailed,
                   startCount, regRet, regStart>>

\* ------------------------------------------------------------------------
\* inbound.Manager
\* ------------------------------------------------------------------------
VARIABLES
    handlers,        \* Manager.handlers: [id, tag] records, in order
    taggedHandlers,  \* Manager.taggedHandlers: a map from tag to handler
    addLog,          \* the tag of the handler each AddHandler call was given
    hState,          \* per handler: "new", "started", "failed" or "closed"
    mCalls,          \* Manager.Start and Manager.Close calls so far
    mOp,             \* the latest of them: "none", "Start" or "Close"
    mInvoked,        \* the handlers whose Start/Close the latest call invoked
    mRes,            \* what the latest Manager.Start returned
    lastGet          \* the latest GetHandler call: its tag and its result

mgrVars == <<handlers, taggedHandlers, addLog, hState, mCalls, mOp, mInvoked,
             mRes, lastGet>>

\* The tags a handler can carry; "" is a handler without a tag.
HandlerTags == {"", "a", "b"}

\* The tags GetHandler is asked for: those, and one no handler carries.
LookupTags == HandlerTags \cup {"c"}

\* The empty Go map.
EmptyMap == [t \in {} |-> 0]

\* `if len(tag) > 0`
MapsTag_Always(tag) == TRUE

MapsTag(tag) == tag # ""

\* m.taggedHandlers[tag] = handler
MapPut_KeepFirst(m, tag, h) ==
    [t \in DOMAIN m \cup {tag} |-> IF t \in DOMAIN m THEN m[t] ELSE h]

MapPut(m, tag, h) == [t \in DOMAIN m \cup {tag} |-> IF t = tag THEN h ELSE m[t]]

\* Manager.GetHandler: the handler mapped to the tag, or a not-found error.
GetHandler(m, tag) ==
    IF tag \in DOMAIN m
      THEN [found |-> TRUE, handler |-> m[tag]]
      ELSE [found |-> FALSE, handler |-> 0]

InitManager ==
    /\ handlers = <<>>
    /\ taggedHandlers = EmptyMap
    /\ addLog = <<>>
    /\ hState = <<>>
    /\ mCalls = 0
    /\ mOp = "none"
    /\ mInvoked = <<>>
    /\ mRes = "none"
    /\ lastGet = [tag |-> "", found |-> FALSE, handler |-> 0]

\* Manager.AddHandler: the handler added by the k-th call is handler k.
AddHandler(tag) ==
    /\ Len(addLog) < MaxHandlers
    /\ handlers' = Append(handlers, [id |-> Len(addLog) + 1, tag |-> tag])
    /\ taggedHandlers' = IF MapsTag(tag)
                           THEN MapPut(taggedHandlers, tag, Len(addLog) + 1)
                           ELSE taggedHandlers
    /\ addLog' = Append(addLog, tag)
    /\ hState' = Append(hState, "new")
    /\ UNCHANGED <<mCalls, mOp, mInvoked, mRes, lastGet>>

ManagerGetHandler(tag) ==
    /\ lastGet' = [tag |-> tag,
                   found |-> GetHandler(taggedHandlers, tag).found,
                   handler |-> GetHandler(taggedHandlers, tag).handler]
    /\ UNCHANGED <<handlers, taggedHandlers, addLog, hState, mCalls, mOp,
                   mInvoked, mRes>>

\* Whether the loop of Manager.Start returns at a handler whose Start failed.
ManagerStartStops_Never(failed) == FALSE

ManagerStartStops(failed) == failed

\* The loop of Manager.Start from index i on: the handlers whose Start() it
\* calls and whether it returns an error. fails: the handlers whose Start()
\* returns an error.
RECURSIVE StartLoop(_, _, _)
StartLoop(hs, i, fails) ==
    IF i > Len(hs)
      THEN [invoked |-> <<>>, err |-> FALSE]
      ELSE IF ManagerStartStops(hs[i].id \in fails)
             THEN [invoked |-> <<hs[i].id>>, err |-> TRUE]
             ELSE LET rest == StartLoop(hs, i + 1, fails)
                  IN  [invoked |-> <<hs[i].id>> \o rest.invoked, err |-> rest.err]

\* Whether the loop of Manager.Close stops at a handler whose Close failed.
ManagerCloseStops_Always(failed) == failed

ManagerCloseStops(failed) == FALSE

\* The loop of Manager.Close from index i on: the handlers whose Close() it
\* calls. fails: the handlers whose Close() returns an error.
RECURSIVE CloseLoop(_, _, _)
CloseLoop(hs, i, fails) ==
    IF i > Len(hs)
      THEN <<>>
      ELSE IF ManagerCloseStops(hs[i].id \in fails)
             THEN <<hs[i].id>>
             ELSE <<hs[i].id>> \o CloseLoop(hs, i + 1, fails)

SeqRange(q) == {q[i] : i \in 1..Len(q)}

\* Manager.Start
ManagerStart(fails) ==
    /\ mCalls < MaxManagerCalls
    /\ LET r == StartLoop(handlers, 1, fails)
       IN  /\ mInvoked' = r.invoked
           /\ mRes' = ErrName(r.err)
           /\ hState' = [id \in DOMAIN hState |->
                           IF id \in SeqRange(r.invoked)
                             THEN IF id \in fails THEN "failed" ELSE "started"
                             ELSE hState[id]]
    /\ mCalls' = mCalls + 1
    /\ mOp' = "Start"
    /\ UNCHANGED <<handlers, taggedHandlers, addLog, lastGet>>

\* Manager.Close
ManagerClose(fails) ==
    /\ mCalls < MaxManagerCalls
    /\ LET invoked == CloseLoop(handlers, 1, fails)
       IN  /\ mInvoked' = invoked
           /\ hState' = [id \in DOMAIN hState |->
                           IF id \in SeqRange(invoked) THEN "closed" ELSE hState[id]]
    /\ mCalls' = mCalls + 1
    /\ mOp' = "Close"
    /\ UNCHANGED <<handlers, taggedHandlers, addLog, mRes, lastGet>>

HandlerIds == 1..Len(addLog)

\* ------------------------------------------------------------------------
\* mux.ClientManager, mux.Client and its SessionManager
\* ------------------------------------------------------------------------
VARIABLES
    concurrency,  \* MultiplexingConfig.Concurrency
    clients,      \* ClientManager.clients: the ids of the live Clients, in order
    cl,           \* every Client created so far, by id
    disp,         \* the ClientManager.Dispatch call that holds ClientManager.access
    dispatched,   \* ClientManager.Dispatch calls so far; call k carries ray k
    dlog          \* the latest Dispatch call: who declined, who accepted

muxVars == <<concurrency, clients, cl, disp, dispatched, dlog>>

maxTotal == 128

Idle == [st |-> "idle", idx |-> 0, c |-> 0, fresh |-> FALSE, ray |-> 0]

\* NewSessionManager()
NewSessionManager == [sessions |-> {}, count |-> 0, closed |-> FALSE]

\* SessionManager.Size()
Size(sm) == Cardinality(sm.sessions)

\* SessionManager.Count()
Count(sm) == sm.count

\* SessionManager.Allocate(): nil once the manager is closed; otherwise a new
\* session whose ID is the next value of the counter. The session is given
\* the caller's ray by Client.Dispatch.
Allocate(sm, ray) ==
    IF sm.closed
      THEN [ok |-> FALSE, sm |-> sm]
      ELSE [ok |-> TRUE,
            sm |-> [sm EXCEPT !.count = @ + 1,
                              !.sessions = @ \cup {[id |-> sm.count + 1, ray |-> ray]}]]

\* SessionManager.Remove(id), called by Session.Close()
Remove(sm, id) ==
    IF sm.closed THEN sm ELSE [sm EXCEPT !.sessions = {x \in @ : x.id # id}]

\* SessionManager.CloseIfNoSession(): close the manager if it holds no session
CloseIfNoSession(sm) ==
    IF sm.closed
      THEN [ok |-> TRUE, sm |-> sm]
      ELSE IF sm.sessions # {}
             THEN [ok |-> FALSE, sm |-> sm]
             ELSE [ok |-> TRUE, sm |-> [sm EXCEPT !.closed = TRUE]]

\* SessionManager.Close(): close the manager and every session it holds
CloseManager(sm) == [sm EXCEPT !.closed = TRUE, !.sessions = {}]

\* NewClient: the Client, with its Process, fetchOutput and monitor tasks started
NewClient(count) ==
    [sm |-> [NewSessionManager EXCEPT !.count = count],
     done |-> FALSE,
     mon |-> "select",
     inputClosed |-> FALSE,
     outputErr |-> FALSE,
     tasks |-> count,
     idleTicks |-> 0]

\* Client.Closed()
Closed(c) == cl[c].done

\* A ClientManager that has dispatched nothing yet, or one whose only Client
\* has had all but Headroom of its maxTotal sessions, all of them ended.
InitMux ==
    /\ concurrency \in 1..MaxConcurrency
    /\ \/ clients = <<>> /\ cl = <<>>
       \/ clients = <<1>> /\ cl = <<NewClient(maxTotal - Headroom)>>
    /\ disp = Idle
    /\ dispatched = 0
    /\ dlog = [declined |-> <<>>, accepted |-> {}, created |-> 0, dropped |-> FALSE]

\* ClientManager.Dispatch: lock, then offer the ray to the first client, or
\* go on to create one if there is none.
DispatchBegin ==
    /\ disp.st = "idle"
    /\ dispatched < MaxDispatch
    /\ dispatched' = dispatched + 1
    /\ disp' = IF clients = <<>>
                 THEN [Idle EXCEPT !.st = "new", !.ray = dispatched + 1]
                 ELSE [st |-> "size", idx |-> 1, c |-> clients[1], fresh |-> FALSE,
                       ray |-> dispatched + 1]
    /\ dlog' = [declined |-> <<>>, accepted |-> {}, created |-> 0, dropped |-> FALSE]
    /\ UNCHANGED <<concurrency, clients, cl>>

\* Where ClientManager.Dispatch goes after client.Dispatch returned false:
\* the next client of the list, the creation of a client after the last one,
\* and the return once the client just created has declined.
AfterDecline_NewAtOnce(d) ==
    IF d.fresh THEN Idle ELSE [d EXCEPT !.st = "new", !.c = 0]

AfterDecline(d) ==
    IF d.fresh
      THEN Idle
      ELSE IF d.idx < Len(clients)
             THEN [d EXCEPT !.st = "size", !.idx = @ + 1, !.c = clients[d.idx + 1]]
             ELSE [d EXCEPT !.st = "new", !.c = 0]

Decline ==
    /\ disp' = AfterDecline(disp)
    /\ dlog' = [dlog EXCEPT !.declined = Append(@, disp.c),
                            !.dropped = disp.fresh]
    /\ UNCHANGED <<concurrency, clients, cl, dispatched>>

\* `sm.Size() >= int(m.concurrency) || sm.Count() >= maxTotal`
IsFull_NoTotal(sm) == Size(sm) >= concurrency

IsFull(sm) == Size(sm) >= concurrency \/ Count(sm) >= maxTotal

\* Client.Dispatch, the capacity check
ClientDispatchSize ==
    /\ disp.st = "size"
    /\ IF IsFull(cl[disp.c].sm)
         THEN Decline
         ELSE /\ disp' = [disp EXCEPT !.st = "done"]
              /\ UNCHANGED <<concurrency, clients, cl, dispatched, dlog>>

\* Client.Dispatch, `if m.done.Done() { return false }`
ClientDispatchDone ==
    /\ disp.st = "done"
    /\ IF Closed(disp.c)
         THEN Decline
         ELSE /\ disp' = [disp EXCEPT !.st = "alloc"]
              /\ UNCHANGED <<concurrency, clients, cl, dispatched, dlog>>

\* Client.Dispatch, sm.Allocate(): on a session, attach the ray, start
\* fetchInput and return true, which ends ClientManager.Dispatch.
ClientDispatchAllocate ==
    /\ disp.st = "alloc"
    /\ LET r == Allocate(cl[disp.c].sm, disp.ray)
       IN  IF ~r.ok
             THEN Decline
             ELSE /\ cl' = [cl EXCEPT ![disp.c].sm = r.sm,
                                      ![disp.c].tasks = @ + 1,
                                      ![disp.c].idleTicks = 0]
                  /\ disp' = Idle
                  /\ dlog' = [dlog EXCEPT !.accepted = @ \cup {disp.c}]
                  /\ UNCHANGED <<concurrency, clients, dispatched>>

\* ClientManager.Dispatch, after the loop: NewClient, append, client.Dispatch
ClientManagerNewClient ==
    /\ disp.st = "new"
    /\ cl' = Append(cl, NewClient(0))
    /\ clients' = Append(clients, Len(cl) + 1)
    /\ disp' = [disp EXCEPT !.st = "size", !.c = Len(cl) + 1, !.fresh = TRUE]
    /\ dlog' = [dlog EXCEPT !.created = Len(cl) + 1]
    /\ UNCHANGED <<concurrency, dispatched>>

\* fetchInput ends: Session.Close()
SessionClose(c, id) ==
    /\ c \in DOMAIN cl
    /\ \E x \in cl[c].sm.sessions : x.id = id
    /\ cl' = [cl EXCEPT ![c].sm = Remove(@, id)]
    /\ UNCHANGED <<concurrency, clients, disp, dispatched, dlog>>

\* The proxy's Process returns: c.done.Close(). Closing a Done that is closed
\* changes nothing, so only the return that closes it is a step.
ProcessReturn(c) ==
    /\ c \in DOMAIN cl
    /\ ~cl[c].done
    /\ cl' = [cl EXCEPT ![c].done = TRUE]
    /\ UNCHANGED <<concurrency, clients, disp, dispatched, dlog>>

\* monitor, `case <-timer.C`: size := Size(). With sessions the tick changes
\* nothing; without, CloseIfNoSession is called next.
MonitorTick(c) ==
    /\ c \in DOMAIN cl
    /\ cl[c].mon = "select"
    /\ Size(cl[c].sm) = 0
    /\ cl' = [cl EXCEPT ![c].mon = "tick",
                        ![c].idleTicks = IF @ < TickCap THEN @ + 1 ELSE @]
    /\ UNCHANGED <<concurrency, clients, disp, dispatched, dlog>>

\* monitor, `size == 0 && m.sessionManager.CloseIfNoSession()`
MonitorCloseIfNoSession_SizeOnly(c) ==
    /\ c \in DOMAIN cl
    /\ cl[c].mon = "tick"
    /\ cl' = [cl EXCEPT ![c].sm.closed = TRUE, ![c].mon = "reap"]
    /\ UNCHANGED <<concurrency, clients, disp, dispatched, dlog>>

MonitorCloseIfNoSession(c) ==
    /\ c \in DOMAIN cl
    /\ cl[c].mon = "tick"
    /\ LET r == CloseIfNoSession(cl[c].sm)
       IN  cl' = [cl EXCEPT ![c].sm = r.sm,
                            ![c].mon = IF r.ok THEN "reap" ELSE "select"]
    /\ UNCHANGED <<concurrency, clients, disp, dispatched, dlog>>

\* monitor, `m.done.Close(); return`
MonitorReap(c) ==
    /\ c \in DOMAIN cl
    /\ cl[c].mon = "reap"
    /\ cl' = [cl EXCEPT ![c].done = TRUE, ![c].mon = "finish"]
    /\ UNCHANGED <<concurrency, clients, disp, dispatched, dlog>>

\* monitor, `case <-m.done.C()`: tear down and return
MonitorDone(c) ==
    /\ c \in DOMAIN cl
    /\ cl[c].mon = "select"
    /\ cl[c].done
    /\ cl' = [cl EXCEPT ![c].sm = CloseManager(@),
                        ![c].inputClosed = TRUE,
                        ![c].outputErr = TRUE,
                        ![c].mon = "finish"]
    /\ UNCHANGED <<concurrency, clients, disp, dispatched, dlog>>

\* The clients onClientFinish keeps
ActiveClients_All(cs) == cs

ActiveClients(cs) == SelectSeq(cs, LAMBDA c : ~Closed(c))

\* monitor's deferred ClientManager.onClientFinish, under ClientManager.access
OnClientFinish(c) ==
    /\ c \in DOMAIN cl
    /\ cl[c].mon = "finish"
    /\ disp.st = "idle"
    /\ clients' = ActiveClients(clients)
    /\ cl' = [cl EXCEPT ![c].mon = "exited"]
    /\ UNCHANGED <<concurrency, disp, dispatched, dlog>>

\* The Clients there can be: the one of the initial state and one for each
\* Dispatch call.
ClientIds == 1..(MaxDispatch + 1)

\* ------------------------------------------------------------------------
\* mux.Client: fetchInput and the frames of the shared stream
\* ------------------------------------------------------------------------
VARIABLES
    fin,       \* the fetchInput task of each session of one Client
    wire,      \* the frames the Client's shared stream has accepted, in order
    wireOpen   \* whether the shared stream (inboundRay's input) is open

wireVars == <<fin, wire, wireOpen>>

SessionIDs == 1..MaxSessions

\* The target in the context of session s's Dispatch call.
Target(s) == [net |-> "tcp", addr |-> s, port |-> 80]

NoTarget == [net |-> "none", addr |-> 0, port |-> 0]

\* The k-th MultiBuffer session s's input yields: k bytes.
Chunk(s, k) == [i \in 1..k |-> 100 * s + 10 * k + i]

\* mux.NewWriter(id, dest, output, transferType)
NewWriter(id, dest) == [id |-> id, dest |-> dest, followup |-> FALSE]

\* The frame Writer.WriteMultiBuffer makes of a MultiBuffer: the first frame
\* of the Writer is New and carries the target, the others are Keep.
WriterFrame(w, data) ==
    [id |-> w.id,
     status |-> IF w.followup THEN "Keep" ELSE "New",
     target |-> IF w.followup THEN NoTarget ELSE w.dest,
     data |-> data]

\* The frames Writer.Close makes: End, after a New without data if the Writer
\* has written nothing.
WriterCloseFrames(w) ==
    LET end == [id |-> w.id, status |-> "End", target |-> NoTarget, data |-> <<>>]
    IN  IF w.followup THEN <<end>> ELSE <<WriterFrame(w, <<>>), end>>

\* The shared stream's WriteMultiBuffer: an open stream takes the frames.
StreamWrite(q, frames) == IF wireOpen THEN q \o frames ELSE q

\* One Client whose sessions have been allocated by Client.Dispatch, each
\* with its fetchInput task about to run.
InitWire ==
    /\ fin = [s \in SessionIDs |->
                [pc |-> "start", w |-> NewWriter(0, NoTarget), nread |-> 0,
                 buf |-> <<>>, read |-> <<>>, emitted |-> <<>>, closed |-> FALSE]]
    /\ wire = <<>>
    /\ wireOpen = TRUE

\* fetchInput up to buf.Copy: the Writer of the session
FetchInputBegin(s) ==
    /\ fin[s].pc = "start"
    /\ fin' = [fin EXCEPT ![s].pc = "read", ![s].w = NewWriter(s, Target(s))]
    /\ UNCHANGED <<wire, wireOpen>>

\* Where fetchInput goes when buf.Copy has returned: its deferred calls.
AfterCopy_NoDefer == "done"

AfterCopy == "sclose"

\* The MultiBuffers read so far from the inputs of sessions 1..n.
RECURSIVE ChunksRead(_)
ChunksRead(n) == IF n = 0 THEN 0 ELSE fin[n].nread + ChunksRead(n - 1)

\* buf.Copy(s.input, writer), the read: a MultiBuffer, the end of the input
\* or an error of the input
CopyRead(s, r) ==
    /\ fin[s].pc = "read"
    /\ r = "data" => ChunksRead(MaxSessions) < MaxChunks
    /\ fin' = IF r = "data"
                THEN [fin EXCEPT ![s].pc = "write",
                                 ![s].nread = @ + 1,
                                 ![s].buf = Chunk(s, fin[s].nread + 1),
                                 ![s].read = @ \o Chunk(s, fin[s].nread + 1)]
                ELSE [fin EXCEPT ![s].pc = AfterCopy]
    /\ UNCHANGED <<wire, wireOpen>>

\* buf.Copy(s.input, writer), the write: the Writer frames the MultiBuffer
\* and hands the frame to the shared stream; a failed write ends the copy.
CopyWrite(s) ==
    /\ fin[s].pc = "write"
    /\ LET f == WriterFrame(fin[s].w, fin[s].buf)
       IN  /\ fin' = [fin EXCEPT ![s].pc = IF wireOpen THEN "read" ELSE AfterCopy,
                                 ![s].w.followup = TRUE,
                                 ![s].buf = <<>>,
                                 ![s].emitted = Append(@, f)]
           /\ wire' = StreamWrite(wire, <<f>>)
    /\ UNCHANGED wireOpen

\* `defer s.Close()`: the deferred call that runs first
FetchInputSessionClose(s) ==
    /\ fin[s].pc = "sclose"
    /\ fin' = [fin EXCEPT ![s].pc = "wclose", ![s].closed = TRUE]
    /\ UNCHANGED <<wire, wireOpen>>

\* `defer writer.Close()`: the deferred call that runs last
FetchInputWriterClose(s) ==
    /\ fin[s].pc = "wclose"
    /\ LET fs == WriterCloseFrames(fin[s].w)
       IN  /\ fin' = [fin EXCEPT ![s].pc = "done",
                                 ![s].w.followup = TRUE,
                                 ![s].emitted = @ \o fs]
           /\ wire' = StreamWrite(wire, fs)
    /\ UNCHANGED wireOpen

\* Client.monitor on Done: m.inboundRay.InboundInput().Close()
StreamClose ==
    /\ wireOpen
    /\ wireOpen' = FALSE
    /\ UNCHANGED <<fin, wire>>

\* ------------------------------------------------------------------------
\* mux.Server and the ServerWorker that reads the frames of one stream
\* ------------------------------------------------------------------------
VARIABLES
    srv,   \* what Server.Dispatch did with each destination it was given
    wk     \* the first ServerWorker: its sessions, inner rays and frames

workerVars == <<srv, wk>>

muxCoolAddress == "v1.mux.cool"

muxCoolPort == 9527

\* The destinations Server.Dispatch is called with.
Destinations == {[addr |-> a, port |-> p] : a \in {muxCoolAddress, "example.com"},
                                           p \in {muxCoolPort, 80}}

\* The destination a mux Client dials: NewClient's net.TCPDestination.
MuxDestination == [addr |-> muxCoolAddress, port |-> muxCoolPort]

\* The frames a stream can carry to the worker; n numbers the frame, and a
\* frame with OptionData carries the one byte n.
FramesIn(n) ==
    {[id |-> i, status |-> "New", target |-> Target(t), data |-> d] :
        i \in SessionIDs, t \in SessionIDs, d \in {<<>>, <<n>>}}
    \cup {[id |-> i, status |-> st, target |-> NoTarget, data |-> d] :
        i \in SessionIDs, st \in {"Keep", "End"}, d \in {<<>>, <<n>>}}
    \cup {[id |-> 0, status |-> "KeepAlive", target |-> NoTarget, data |-> d] :
        d \in {<<>>, <<n>>}}

\* No frame read yet.
NoFrame == [id |-> 0, status |-> "none", target |-> NoTarget, data |-> <<>>]

\* handleFrame has read the frame f: ReadMetadata.
Read(w, f) == [w EXCEPT !.nread = @ + 1, !.last = f]

InitServer ==
    /\ srv = [forwarded |-> <<>>, workers |-> <<>>]
    /\ wk = [st |-> "none", sm |-> NewSessionManager, nread |-> 0, last |-> NoFrame,
             calls |-> <<>>, rays |-> <<>>, tasks |-> {},
             exit |-> "", inputErr |-> FALSE]

\* `if dest.Address != muxCoolAddress`
IsMux(dest) == dest.addr = muxCoolAddress

\* Server.Dispatch: a destination that is not the mux address goes to the core
\* dispatcher as it is; otherwise a ServerWorker is made and its run task
\* started.
ServerDispatch(dest) ==
    /\ Len(srv.forwarded) + Len(srv.workers) < MaxServerDispatch
    /\ IF ~IsMux(dest)
         THEN /\ srv' = [srv EXCEPT !.forwarded = Append(@, dest)]
              /\ wk' = wk
         ELSE /\ srv' = [srv EXCEPT !.workers = Append(@, dest)]
              /\ wk' = IF wk.st = "none" THEN [wk EXCEPT !.st = "run"] ELSE wk

\* SessionManager.Add(s): the session is stored under its ID.
Add(sm, s) ==
    IF sm.closed
      THEN sm
      ELSE [sm EXCEPT !.sessions = {x \in @ : x.id # s.id} \cup {s}]

\* SessionManager.Get(id)
Get(sm, id) ==
    IF sm.closed \/ ~\E x \in sm.sessions : x.id = id
      THEN [found |-> FALSE, ray |-> 0]
      ELSE [found |-> TRUE, ray |-> (CHOOSE x \in sm.sessions : x.id = id).ray]

\* The write of a frame's data to s.output with buf.IgnoreWriterError(): an
\* open ray input takes the data, the error of a closed one is dropped.
CopyToOutput_Unordered(rays, k, data) ==
    IF rays[k].closed \/ data = <<>>
      THEN rays
      ELSE [rays EXCEPT ![k].input = data \o @]

CopyToOutput(rays, k, data) ==
    IF rays[k].closed \/ data = <<>>
      THEN rays
      ELSE [rays EXCEPT ![k].input = @ \o data]

\* Session.Close(): both pipes of the session are closed and the session's ID
\* is removed from the manager.
SessionCloseRay(rays, k) == [rays EXCEPT ![k].closed = TRUE]

\* `errors.Cause(err) != io.EOF`, for the errors handleFrame returns: "EOF"
\* is the error of ReadMetadata at the end of the stream.
IsUnexpected_Any(err) == TRUE

IsUnexpected(err) == err # "EOF"

\* run returns: on ctx.Done() ("cancel"), or after handleFrame returned the
\* error err; an error other than EOF closes the worker's input with
\* CloseError; the deferred sessionManager.Close() closes every session the
\* manager holds.
RunReturn(w, err) ==
    [w EXCEPT !.st = IF err # "cancel" /\ IsUnexpected(err) THEN "failed" ELSE "done",
              !.exit = err,
              !.inputErr = err # "cancel" /\ IsUnexpected(err),
              !.sm = CloseManager(w.sm),
              !.rays = [k \in DOMAIN w.rays |->
                          IF \E x \in w.sm.sessions : x.ray = k
                            THEN [w.rays[k] EXCEPT !.closed = TRUE]
                            ELSE w.rays[k]],
              !.tasks = {t \in @ : ~\E x \in w.sm.sessions : x.ray = t.ray}]

CanRead == wk.st = "run" /\ wk.nread < MaxFrames

\* handleFrame with a New frame whose Dispatch fails: the data is drained and
\* the error ends run.
HandleStatusNewFailed(f) ==
    /\ CanRead /\ f.status = "New"
    /\ wk' = RunReturn([Read(wk, f) EXCEPT
                           !.calls = Append(@, [target |-> f.target, ok |-> FALSE])],
                       "dispatch")
    /\ srv' = srv

\* handleFrame with a New frame whose Dispatch gives an inner ray: a session
\* with the frame's ID is added, its handle task started, and the frame's
\* data copied to the inner ray's input.
HandleStatusNew(f) ==
    /\ CanRead /\ f.status = "New"
    /\ LET k == Len(wk.rays) + 1
           s == [id |-> f.id, ray |-> k]
           ray == [id |-> f.id, target |-> f.target, input |-> <<>>,
                   closed |-> FALSE]
       IN  wk' = [Read(wk, f) EXCEPT
                            !.calls = Append(@, [target |-> f.target, ok |-> TRUE]),
                            !.sm = Add(@, s),
                            !.tasks = @ \cup {s},
                            !.rays = CopyToOutput(Append(@, ray), k, f.data)]
    /\ srv' = srv

\* handleFrame with a Keep frame: the data goes to the session found under
\* the frame's ID, and is drained if there is none.
HandleStatusKeep(f) ==
    /\ CanRead /\ f.status = "Keep"
    /\ LET g == Get(wk.sm, f.id)
       IN  wk' = [Read(wk, f) EXCEPT
                            !.rays = IF f.data # <<>> /\ g.found
                                       THEN CopyToOutput(@, g.ray, f.data)
                                       ELSE @]
    /\ srv' = srv

\* handleFrame with an End frame: the session found under the frame's ID is
\* closed; the frame's data is drained.
HandleStatusEnd(f) ==
    /\ CanRead /\ f.status = "End"
    /\ LET g == Get(wk.sm, f.id)
       IN  wk' = [Read(wk, f) EXCEPT
                            !.sm = IF g.found THEN Remove(@, f.id) ELSE @,
                            !.rays = IF g.found THEN SessionCloseRay(@, g.ray) ELSE @]
    /\ srv' = srv

\* handleFrame with a KeepAlive frame: its data is drained.
HandleStatusKeepAlive(f) ==
    /\ CanRead /\ f.status = "KeepAlive"
    /\ wk' = Read(wk, f)
    /\ srv' = srv

\* handle(ctx, s, output): the inner ray's output has ended, the task closes
\* its session.
HandleReturn(t) ==
    /\ t \in wk.tasks
    /\ wk' = [wk EXCEPT !.tasks = @ \ {t},
                        !.sm = Remove(@, t.id),
                        !.rays = SessionCloseRay(@, t.ray)]
    /\ srv' = srv

\* The outbound handler that serves an inner ray ends: it closes the ray's
\* input with CloseError.
InnerInputClose(k) ==
    /\ k \in DOMAIN wk.rays
    /\ ~wk.rays[k].closed
    /\ wk' = [wk EXCEPT !.rays = SessionCloseRay(@, k)]
    /\ srv' = srv

\* run: the stream has ended, handleFrame returns the EOF of ReadMetadata.
RunEOF ==
    /\ wk.st = "run"
    /\ wk' = RunReturn(wk, "EOF")
    /\ srv' = srv

\* run, `case <-ctx.Done()`: the worker's context is cancelled between two
\* frames.
RunCancel ==
    /\ wk.st = "run"
    /\ wk' = RunReturn(wk, "cancel")
    /\ srv' = srv

\* handleFrame fails before any handler runs: ReadMetadata cannot parse the
\* metadata ("metadata"), or the frame's status is none of the four
\* ("unknown status").
HandleFrameFails(err) ==
    /\ wk.st = "run"
    /\ wk' = RunReturn(wk, err)
    /\ srv' = srv

\* ------------------------------------------------------------------------
\* crypto: the AEAD nonce generator and the authenticated chunk codec
\* ------------------------------------------------------------------------
VARIABLES
    aw,   \* an AuthenticationWriter, its generator and what it has sealed
    ar    \* the AuthenticationReader of the same stream, and its generator

chunkVars == <<aw, ar>>

\* The nonces of the model: NonceSize bytes of ByteMod values each, where the
\* generator has 12 bytes of 256 values each.
NonceSpace == ByteMod ^ NonceSize

\* NewIncreasingAEADNonceGenerator(): every byte is the largest byte.
NewIncreasingAEADNonceGenerator == [i \in 1..NonceSize |-> ByteMod - 1]

\* The loop of IncreasingAEADNonceGenerator.Next from byte i on: the byte is
\* incremented, and the loop goes on to the next byte only if it became 0.
RECURSIVE NextFrom_NoCarry(_, _)
NextFrom_NoCarry(nonce, i) ==
    IF i > Len(nonce)
      THEN nonce
      ELSE [nonce EXCEPT ![i] = (@ + 1) % ByteMod]

RECURSIVE NextFrom(_, _)
NextFrom(nonce, i) ==
    IF i > Len(nonce)
      THEN nonce
      ELSE LET n == [nonce EXCEPT ![i] = (@ + 1) % ByteMod]
           IN  IF n[i] # 0 THEN n ELSE NextFrom(n, i + 1)

\* IncreasingAEADNonceGenerator.Next()
NonceNext(nonce) == NextFrom(nonce, 1)

\* AEADAuthenticator.Seal: a next nonce that has not the AEAD's NonceSize is
\* an error; otherwise it seals the plain text.  The sealed bytes are kept as
\* the pair they were made of: they open under that nonce and no other.
Seal(gen, plain) ==
    [gen |-> NonceNext(gen),
     ok |-> Len(NonceNext(gen)) = NonceSize,
     sealed |-> [iv |-> NonceNext(gen), plain |-> plain]]

\* AEADAuthenticator.Open: a next nonce that has not the AEAD's NonceSize is
\* an error; otherwise it opens the sealed bytes, or fails to.
Open(gen, sealed) ==
    LET iv == NonceNext(gen)
        ok == Len(iv) = NonceSize /\ sealed.iv = iv
    IN  [gen |-> iv, ok |-> ok, plain |-> IF ok THEN sealed.plain ELSE <<>>]

\* The MultiBuffers written: each a sequence of buffers, given by their
\* lengths. The i-th byte of the n-th write is 10 * n + i.
Shapes == {<<>>, <<0>>, <<1>>, <<PayloadSize + 1>>, <<1, 1>>, <<1, 0, 1>>}

RECURSIVE Sum(_)
Sum(lens) == IF lens = <<>> THEN 0 ELSE Head(lens) + Sum(Tail(lens))

\* The bytes of the MultiBuffer of shape lens that is the n-th write, buffer
\* by buffer; off bytes of it come before.
RECURSIVE Buffers(_, _, _)
Buffers(lens, n, off) ==
    IF lens = <<>>
      THEN <<>>
      ELSE <<[i \in 1..Head(lens) |-> 10 * n + off + i]>>
             \o Buffers(Tail(lens), n, off + Head(lens))

RECURSIVE Flatten(_)
Flatten(mb) == IF mb = <<>> THEN <<>> ELSE Head(mb) \o Flatten(Tail(mb))

\* MultiBuffer.IsEmpty(): no buffer of it holds a byte.
IsEmpty(mb) == \A i \in DOMAIN mb : mb[i] = <<>>

\* AuthenticationWriter.seal: the size, which counts the overhead, and the
\* sealed bytes. w is the writer, b the buffer.  w.auth is an Authenticator:
\* sealLeft is the number of Seal calls it serves before one fails (-1: it
\* serves them all), and an error of Seal is the error of seal.
SealBuffer(w, b) ==
    IF w.sealLeft = 0
      THEN [w EXCEPT !.err = TRUE]
      ELSE LET r == Seal(w.gen, b)
           IN  IF ~r.ok
                 THEN [w EXCEPT !.gen = r.gen, !.err = TRUE]
                 ELSE [w EXCEPT !.gen = r.gen,
                                !.sealLeft = IF @ > 0 THEN @ - 1 ELSE @,
                                !.frames = Append(@, [size |-> Len(b) + Overhead,
                                                      sealed |-> r.sealed])]

\* ChunkSizeEncoder.SizeBytes(): the bytes of the size field of a frame.
SizeBytes == 2

\* buf.Size, in `payloadSize := buf.Size - w.auth.Overhead() -
\* w.sizeParser.SizeBytes()`.
BufSize == PayloadSize + Overhead + SizeBytes

\* The loop of writeStream over the bytes left of the MultiBuffer: up to
\* PayloadSize bytes are read and sealed, until no byte is left or seal
\* fails.
WriteStreamLoop_Whole(w, bytes) == SealBuffer(w, bytes)

RECURSIVE WriteStreamLoop(_, _)
WriteStreamLoop(w, bytes) ==
    LET n == IF Len(bytes) < PayloadSize THEN Len(bytes) ELSE PayloadSize
        w2 == SealBuffer(w, SubSeq(bytes, 1, n))
        rest == SubSeq(bytes, n + 1, Len(bytes))
    IN  IF w2.err \/ rest = <<>> THEN w2 ELSE WriteStreamLoop(w2, rest)

\* The loop of writePacket: the first buffer is split off and sealed (an
\* empty buffer if there is none), until the rest IsEmpty or seal fails.
RECURSIVE WritePacketLoop(_, _)
WritePacketLoop(w, mb) ==
    LET b == IF mb = <<>> THEN <<>> ELSE Head(mb)
        rest == IF mb = <<>> THEN <<>> ELSE Tail(mb)
        w2 == SealBuffer(w, b)
    IN  IF w2.err \/ IsEmpty(rest) THEN w2 ELSE WritePacketLoop(w2, rest)

NoCodec ==
    [mode |-> "none", gen |-> <<>>, frames |-> <<>>, written |-> <<>>,
     writes |-> <<>>, closed |-> FALSE, sealLeft |-> -1, err |-> FALSE]

NoReader ==
    [gen |-> <<>>, pos |-> 0, got |-> <<>>, eof |-> FALSE, err |-> FALSE,
     reads |-> <<>>]

InitChunk ==
    /\ aw = NoCodec
    /\ ar = NoReader

\* NewAuthenticationWriter and NewAuthenticationReader for one stream of the
\* given transfer type, each with a new nonce generator.
NewAuthentication(mode) ==
    /\ aw.mode = "none"
    /\ aw' = [aw EXCEPT !.mode = mode, !.gen = NewIncreasingAEADNonceGenerator]
    /\ ar' = [ar EXCEPT !.gen = NewIncreasingAEADNonceGenerator]

\* What writeStream and writePacket do after their loops: after an error
\* of seal the sealed frames are released and the error returned; otherwise
\* the frames are written to the writer underneath.
AfterLoop_WriteSealed(old, w) == w

AfterLoop(old, w) ==
    IF w.err
      THEN [w EXCEPT !.frames = old.frames, !.written = old.written]
      ELSE w

\* AuthenticationWriter.WriteMultiBuffer, for a writer that is given at most
\* max MultiBuffers.
WriteMultiBuffer(lens, max) ==
    /\ aw.mode # "none" /\ ~aw.closed
    /\ Len(aw.writes) < max
    /\ LET mb == Buffers(lens, Len(aw.writes) + 1, 0)
           w == [aw EXCEPT !.writes = Append(@, lens),
                           !.written = @ \o Flatten(mb),
                           !.err = FALSE]
       IN  aw' = AfterLoop(aw, IF aw.mode = "Stream"
                                 THEN WriteStreamLoop(w, Flatten(mb))
                                 ELSE WritePacketLoop(w, mb))
    /\ ar' = ar

\* The writer's side closes the stream under the writer.
StreamEnd ==
    /\ aw.mode # "none" /\ ~aw.closed
    /\ aw' = [aw EXCEPT !.closed = TRUE]
    /\ ar' = ar

\* `if size == r.auth.Overhead()`
IsEOFMarker_Never(size) == FALSE

IsEOFMarker(size) == size = Overhead

\* AuthenticationReader.ReadMultiBuffer with a frame to read: a frame whose
\* size is the overhead gives io.EOF, any other is opened and its plain text
\* returned.
ReadMultiBuffer ==
    /\ aw.mode # "none" /\ ~ar.eof /\ ~ar.err
    /\ ar.pos < Len(aw.frames)
    /\ LET f == aw.frames[ar.pos + 1]
           r == Open(ar.gen, f.sealed)
       IN  ar' = IF IsEOFMarker(f.size)
                   THEN [ar EXCEPT !.pos = @ + 1, !.eof = TRUE]
                   ELSE IF r.ok
                          THEN [ar EXCEPT !.pos = @ + 1, !.gen = r.gen,
                                          !.got = @ \o r.plain,
                                          !.reads = Append(@, r.plain)]
                          ELSE [ar EXCEPT !.pos = @ + 1, !.gen = r.gen, !.err = TRUE]
    /\ aw' = aw

\* AuthenticationReader.ReadMultiBuffer at the end of a closed stream:
\* readSize returns io.EOF.
ReadMultiBufferEOF ==
    /\ aw.mode # "none" /\ ~ar.eof /\ ~ar.err
    /\ ar.pos = Len(aw.frames) /\ aw.closed
    /\ ar' = [ar EXCEPT !.eof = TRUE]
    /\ aw' = aw

\* The faults of a codec.  The writer's Authenticator fails its Seal after
\* sealLeft calls (-1: never), or has a nonce generator wgen; the reader has a
\* nonce generator rgen.  A generator is the one of
\* NewIncreasingAEADNonceGenerator, that generator one nonce ahead, or one
\* whose nonces are a byte short of NonceSize.
ShortGenerator == [i \in 1..(NonceSize - 1) |-> ByteMod - 1]

CodecFaults ==
    LET std == NewIncreasingAEADNonceGenerator
    IN  {[sealLeft |-> -1, wgen |-> std, rgen |-> std]}
        \cup {[sealLeft |-> k, wgen |-> std, rgen |-> std] : k \in 0..MaxSealed}
        \cup {[sealLeft |-> -1, wgen |-> ShortGenerator, rgen |-> std]}
        \cup {[sealLeft |-> -1, wgen |-> std, rgen |-> g] :
                  g \in {NonceNext(std), ShortGenerator}}

\* NewAuthenticationWriter and NewAuthenticationReader with the Authenticators
\* of the fault c.
NewAuthenticationWith(mode, c) ==
    /\ aw.mode = "none"
    /\ aw' = [aw EXCEPT !.mode = mode, !.gen = c.wgen, !.sealLeft = c.sealLeft]
    /\ ar' = [ar EXCEPT !.gen = c.rgen]

\* A frame the reader has not read yet is changed on its way: its sealed
\* bytes open under no nonce any more.
Tampered(f) == f.sealed.iv = <<>>

Tamper(i) ==
    /\ i \in DOMAIN aw.frames /\ i > ar.pos
    /\ ~Tampered(aw.frames[i])
    /\ aw' = [aw EXCEPT !.frames[i].sealed.iv = <<>>]
    /\ ar' = ar

\* ------------------------------------------------------------------------
\* shadowsocks: the TCP request header and the UDP packet
\* ------------------------------------------------------------------------
VARIABLES
    ss    \* one request: who sends it, what is on the wire, what the peer reads

ssVars == <<ss>>

Version == 1

AddrTypeIPv4 == 1

AddrTypeIPv6 == 4

AddrTypeDomain == 3

\* The bit of the address type byte that signals one-time authentication.
OTABit == 16

\* A MemoryAccount: its cipher is AEAD or not, its OneTimeAuth is one of
\* Account_Auto, Account_Enabled and Account_Disabled; its key is fixed.
Accounts == [aead : BOOLEAN, ota : {"Auto", "Enabled", "Disabled"}]

Key == <<9>>

\* The IV that rand gives.
IV == <<7>>

\* net.IPAddress(bytes) and net.DomainAddress(string)
IPAddress(bytes) ==
    [family |-> IF Len(bytes) = 4 THEN "IPv4" ELSE "IPv6", bytes |-> bytes]

DomainAddress(bytes) == [family |-> "Domain", bytes |-> bytes]

NoAddress == [family |-> "nil", bytes |-> <<>>]

Addresses ==
    {IPAddress(<<10, 0, 17, 1>>),
     IPAddress(<<32, 1, 13, 184, 0, 0, 0, 0, 0, 0, 0, 0, 0, 0, 0, 1>>),
     DomainAddress(<<118, 50>>)}

Ports == {80, 443, 65535}

Payloads == {<<>>, <<104, 105>>}

\* The requests a caller passes: RequestOptionOneTimeAuth set or not.
Requests == [address : Addresses, port : Ports, ota : BOOLEAN]

\* One byte of a buffer. The bytes an Authenticator makes are kept as what
\* they were made of (m): they equal the bytes made of the same key and data
\* and no others.
Byte(n) == [v |-> n, m |-> <<>>]

Bytes(ns) == [i \in DOMAIN ns |-> Byte(ns[i])]

Values(buffer) == [i \in DOMAIN buffer |-> buffer[i].v]

\* socks.AppendAddress: the address type, the address (a domain after its
\* length) and the port, high byte first.
AppendAddress(address, port) ==
    Bytes((CASE address.family = "IPv4" -> <<AddrTypeIPv4>> \o address.bytes
             [] address.family = "IPv6" -> <<AddrTypeIPv6>> \o address.bytes
             [] OTHER -> <<AddrTypeDomain, Len(address.bytes)>> \o address.bytes)
          \o <<port \div 256, port % 256>>)

\* net.PortFromBytes
PortFromBytes(b) == b[1].v * 256 + b[2].v

\* `b & 0x10 == 0x10` and `b | 0x10`
HasOTABit(b) == (b.v \div OTABit) % 2 = 1

SetOTABit(b) == IF HasOTABit(b) THEN b ELSE [b EXCEPT !.v = @ + OTABit]

\* NewAuthenticator(HeaderKeyGenerator(key, iv)).Authenticate(data)
Authenticate(key, iv, data) ==
    [i \in 1..AuthSize |-> [v |-> 0, m |-> <<i>> \o key \o iv \o Values(data)]]

\* WriteTCPRequest: the request as the caller has it afterwards, and the
\* header written through the encryption writer.
WriteTCPRequest(request, account) ==
    LET ota == IF account.aead THEN FALSE ELSE request.ota
        header == AppendAddress(request.address, request.port)
        marked == [header EXCEPT ![1] = SetOTABit(@)]
        body == IF ota THEN marked \o Authenticate(Key, IV, marked) ELSE header
    IN  [request |-> [request EXCEPT !.ota = ota],
         wire |-> [iv |-> IV, body |-> body, sealed |-> body]]

\* The bytes ReadTCPSession reads for the address, by address type: none for
\* a type it does not know.
AddressLength(body) ==
    LET t == body[1].v % 16
    IN  CASE t = AddrTypeIPv4 -> 4
          [] t = AddrTypeIPv6 -> 16
          [] t = AddrTypeDomain -> IF Len(body) >= 2 THEN 1 + body[2].v ELSE 1
          [] OTHER -> 0

\* The address of a header or packet whose address bytes are all there.
ParseAddress_WithLength(body) ==
    LET t == body[1].v % 16
    IN  CASE t = AddrTypeIPv4 -> IPAddress(Values(SubSeq(body, 2, 5)))
          [] t = AddrTypeIPv6 -> IPAddress(Values(SubSeq(body, 2, 17)))
          [] t = AddrTypeDomain -> DomainAddress(Values(SubSeq(body, 2, 2 + body[2].v)))
          [] OTHER -> NoAddress

ParseAddress(body) ==
    LET t == body[1].v % 16
    IN  CASE t = AddrTypeIPv4 -> IPAddress(Values(SubSeq(body, 2, 5)))
          [] t = AddrTypeIPv6 -> IPAddress(Values(SubSeq(body, 2, 17)))
          [] t = AddrTypeDomain -> DomainAddress(Values(SubSeq(body, 3, 2 + body[2].v)))
          [] OTHER -> NoAddress

Rejected(msg) ==
    [err |-> msg, version |-> 0, command |-> "none", address |-> NoAddress,
     port |-> 0, ota |-> FALSE, payload |-> <<>>]

\* `if !account.Cipher.IsAEAD()`: the OneTimeAuth checks of ReadTCPSession and
\* DecodeUDPPacket are made for a cipher that is not AEAD.
ChecksOTA(account) == ~account.aead

\* The two checks of the request's option against the account: the error of
\* the one that fails, "" if none does. what is "connection" or "packet".
OTAPolicyError_None(account, ota, what) == ""

OTAPolicyError(account, ota, what) ==
    IF ota /\ account.ota = "Disabled"
      THEN IF what = "connection"
             THEN "rejecting connection with OTA enabled, while server disables OTA"
             ELSE "rejecting packet with OTA enabled, while server disables OTA"
      ELSE IF ~ota /\ account.ota = "Enabled"
             THEN IF what = "connection"
                    THEN "rejecting connection with OTA disabled, while server enables OTA"
                    ELSE "rejecting packet with OTA disabled, while server enables OTA"
             ELSE ""

\* What an AEAD cipher does not open: bytes other than those it sealed.
Forged(pkt) == pkt.body # pkt.sealed

\* ReadTCPSession: the address type, the option and its checks, the address
\* by its type (none for a type it does not know), the port, the MAC if the
\* option is set, and only then `if request.Address == nil`.
ReadTCPSession_AddressFirst(account, pkt) ==
    LET body == pkt.body
        ota == ChecksOTA(account) /\ HasOTABit(body[1])
        n == 1 + AddressLength(body)
        authed == SubSeq(body, 1, n + 2)
    IN  IF Forged(pkt) /\ account.aead
          THEN Rejected("failed to read address type")
        ELSE IF body = <<>>
          THEN Rejected("failed to read address type")
        ELSE IF ChecksOTA(account) /\ OTAPolicyError(account, ota, "connection") # ""
          THEN Rejected(OTAPolicyError(account, ota, "connection"))
        ELSE IF Len(body) < n
          THEN Rejected("failed to read address")
        ELSE IF ParseAddress(body) = NoAddress
          THEN Rejected("invalid remote address.")
        ELSE IF Len(body) < n + 2
          THEN Rejected("failed to read port")
        ELSE IF ota /\ Len(body) < n + 2 + AuthSize
          THEN Rejected("Failed to read OTA")
        ELSE IF ota /\ Authenticate(Key, pkt.iv, authed)
                         # SubSeq(body, n + 3, n + 2 + AuthSize)
          THEN Rejected("invalid OTA")
        ELSE [err |-> "", version |-> Version, command |-> "TCP",
              address |-> ParseAddress(body),
              port |-> PortFromBytes(SubSeq(body, n + 1, n + 2)),
              ota |-> ota, payload |-> <<>>]

ReadTCPSession(account, pkt) ==
    LET body == pkt.body
        ota == ChecksOTA(account) /\ HasOTABit(body[1])
        n == 1 + AddressLength(body)
        authed == SubSeq(body, 1, n + 2)
    IN  IF Forged(pkt) /\ account.aead
          THEN Rejected("failed to read address type")
        ELSE IF body = <<>>
          THEN Rejected("failed to read address type")
        ELSE IF ChecksOTA(account) /\ OTAPolicyError(account, ota, "connection") # ""
          THEN Rejected(OTAPolicyError(account, ota, "connection"))
        ELSE IF Len(body) < n
          THEN Rejected("failed to read address")
        ELSE IF Len(body) < n + 2
          THEN Rejected("failed to read port")
        ELSE IF ota /\ Len(body) < n + 2 + AuthSize
          THEN Rejected("Failed to read OTA")
        ELSE IF ota /\ Authenticate(Key, pkt.iv, authed)
                         # SubSeq(body, n + 3, n + 2 + AuthSize)
          THEN Rejected("invalid OTA")
        ELSE IF ParseAddress(body) = NoAddress
          THEN Rejected("invalid remote address.")
        ELSE [err |-> "", version |-> Version, command |-> "TCP",
              address |-> ParseAddress(body),
              port |-> PortFromBytes(SubSeq(body, n + 1, n + 2)),
              ota |-> ota, payload |-> <<>>]

\* EncodeUDPPacket
EncodeUDPPacket(request, account, payload) ==
    LET buffer == AppendAddress(request.address, request.port) \o Bytes(payload)
        marked == [buffer EXCEPT ![1] = SetOTABit(@)]
        body == IF ~account.aead /\ request.ota
                  THEN marked \o Authenticate(Key, IV, marked)
                  ELSE buffer
    IN  [iv |-> IV, body |-> body, sealed |-> body]

\* What DecodeUDPPacket comes to where it takes a byte or a slice of the
\* payload that the payload does not have: payload.Byte(0) of an empty
\* payload, BytesFrom of a negative length, BytesTo(4), BytesTo(16),
\* BytesRange(1, 1+domainLength) and BytesTo(2) of fewer bytes. The function
\* compares no length before these and has no error return for them: the
\* access is outside the payload, and no error is returned.
OutOfRange == Rejected("out of range")

\* DecodeUDPPacket: the packet is decrypted, the option is taken from the
\* first byte and checked, the MAC is cut from the end and compared, then
\* address type, address and port are sliced off the front.
DecodeUDPPacket_Unverified(account, pkt) ==
    LET ota == ChecksOTA(account) /\ HasOTABit(pkt.body[1])
        payloadLen == Len(pkt.body) - AuthSize
        body == IF ota THEN SubSeq(pkt.body, 1, payloadLen) ELSE pkt.body
        n == 1 + AddressLength(body)
    IN  IF Forged(pkt) /\ account.aead
          THEN Rejected("failed to decrypt UDP payload")
        ELSE IF pkt.body = <<>>
          THEN OutOfRange
        ELSE IF ChecksOTA(account) /\ OTAPolicyError(account, ota, "packet") # ""
          THEN Rejected(OTAPolicyError(account, ota, "packet"))
        ELSE IF ota /\ payloadLen < 0
          THEN OutOfRange
        ELSE IF body = <<>>
          THEN OutOfRange
        ELSE IF body[1].v % 16 \notin {AddrTypeIPv4, AddrTypeIPv6, AddrTypeDomain}
          THEN Rejected("unknown address type")
        ELSE IF Len(body) < n + 2
          THEN OutOfRange
        ELSE [err |-> "", version |-> Version, command |-> "UDP",
              address |-> ParseAddress(body),
              port |-> PortFromBytes(SubSeq(body, n + 1, n + 2)),
              ota |-> ota,
              payload |-> Values(SubSeq(body, n + 3, Len(body)))]

DecodeUDPPacket(account, pkt) ==
    LET ota == ChecksOTA(account) /\ HasOTABit(pkt.body[1])
        payloadLen == Len(pkt.body) - AuthSize
        body == IF ota THEN SubSeq(pkt.body, 1, payloadLen) ELSE pkt.body
        n == 1 + AddressLength(body)
    IN  IF Forged(pkt) /\ account.aead
          THEN Rejected("failed to decrypt UDP payload")
        ELSE IF pkt.body = <<>>
          THEN OutOfRange
        ELSE IF ChecksOTA(account) /\ OTAPolicyError(account, ota, "packet") # ""
          THEN Rejected(OTAPolicyError(account, ota, "packet"))
        ELSE IF ota /\ payloadLen < 0
          THEN OutOfRange
        ELSE IF ota /\ Authenticate(Key, pkt.iv, body)
                         # SubSeq(pkt.body, payloadLen + 1, Len(pkt.body))
          THEN Rejected("invalid OTA")
        ELSE IF body = <<>>
          THEN OutOfRange
        ELSE IF body[1].v % 16 \notin {AddrTypeIPv4, AddrTypeIPv6, AddrTypeDomain}
          THEN Rejected("unknown address type")
        ELSE IF Len(body) < n + 2
          THEN OutOfRange
        ELSE [err |-> "", version |-> Version, command |-> "UDP",
              address |-> ParseAddress(body),
              port |-> PortFromBytes(SubSeq(body, n + 1, n + 2)),
              ota |-> ota,
              payload |-> Values(SubSeq(body, n + 3, Len(body)))]

NoWire == [iv |-> <<>>, body |-> <<>>, sealed |-> <<>>]

InitShadowsocks ==
    ss = [pc |-> "idle", proto |-> "none",
          account |-> [aead |-> FALSE, ota |-> "Auto"],
          given |-> [address |-> NoAddress, port |-> 0, ota |-> FALSE],
          request |-> [address |-> NoAddress, port |-> 0, ota |-> FALSE],
          payload |-> <<>>, wire |-> NoWire, changes |-> 0,
          res |-> Rejected("none")]

\* A client calls WriteTCPRequest with a request of a user of the account.
ClientWriteTCPRequest(account, request) ==
    /\ ss.pc = "idle"
    /\ LET w == WriteTCPRequest(request, account)
       IN  ss' = [ss EXCEPT !.pc = "sent", !.proto = "tcp", !.account = account,
                            !.given = request, !.request = w.request,
                            !.wire = w.wire]

\* A client calls EncodeUDPPacket and sends the packet.
ClientEncodeUDPPacket(account, request, payload) ==
    /\ ss.pc = "idle"
    /\ LET w == EncodeUDPPacket(request, account, payload)
       IN  ss' = [ss EXCEPT !.pc = "sent", !.proto = "udp", !.account = account,
                            !.given = request, !.request = request,
                            !.payload = payload, !.wire = w]

\* What a change on the way makes of one byte: another value, by one bit.
Flip(b, bit) ==
    IF b.m # <<>>
      THEN Byte(bit)
      ELSE IF (b.v \div bit) % 2 = 1 THEN Byte(b.v - bit) ELSE Byte(b.v + bit)

\* Somebody on the way changes one byte of what a stream cipher has made of
\* the header or packet; the change shows in the same byte of the plain text.
ChangeOnTheWay(i, bit) ==
    /\ ss.pc = "sent"
    /\ ss.changes < MaxChanges
    /\ i \in DOMAIN ss.wire.body
    /\ ss' = [ss EXCEPT !.changes = @ + 1,
                        !.wire.body[i] = Flip(@, bit)]

\* The server reads the request with ReadTCPSession, for the same account.
ServerReadTCPSession ==
    /\ ss.pc = "sent" /\ ss.proto = "tcp"
    /\ ss' = [ss EXCEPT !.pc = "done", !.res = ReadTCPSession(ss.account, ss.wire)]

\* The server decodes the packet with DecodeUDPPacket, for the same account.
ServerDecodeUDPPacket ==
    /\ ss.pc = "sent" /\ ss.proto = "udp"
    /\ ss' = [ss EXCEPT !.pc = "done", !.res = DecodeUDPPacket(ss.account, ss.wire)]

\* The address types a peer may put into the low four bits of the first
\* byte: the three of the protocol and two that are none of them.
HeaderTypes == {AddrTypeIPv4, AddrTypeIPv6, AddrTypeDomain, 0, 2}

\* The address bytes that go with a type: a domain after its length, nothing
\* for a type that is no address type.
HeaderAddress(t) ==
    CASE t = AddrTypeIPv4 -> <<10, 0, 17, 1>>
      [] t = AddrTypeIPv6 -> <<32, 1, 13, 184, 0, 0, 0, 0, 0, 0, 0, 0, 0, 0, 0, 1>>
      [] t = AddrTypeDomain -> <<2, 118, 50>>
      [] OTHER -> <<>>

\* The bytes a peer that has the key makes by hand: type, address, port 443
\* and what follows; with the OTA bit set if it wants, and then with the MAC
\* of the bytes or with AuthSize bytes that are not the MAC.
CraftedBytes(t, ota, mac, rest) ==
    LET plain == Bytes(<<t>> \o HeaderAddress(t) \o <<1, 187>> \o rest)
        marked == [plain EXCEPT ![1] = SetOTABit(@)]
    IN  IF ~ota
          THEN plain
          ELSE marked \o (IF mac THEN Authenticate(Key, IV, marked)
                                 ELSE Bytes([i \in 1..AuthSize |-> 0]))

\* A peer that has the key of the account sends the first keep of such
\* bytes, encrypted as the account's cipher does, as the head of a
\* connection or as one packet.
PeerSends(proto, account, t, ota, mac, rest, keep) ==
    /\ ss.pc = "idle"
    /\ keep \in 0..Len(CraftedBytes(t, ota, mac, rest))
    /\ LET body == SubSeq(CraftedBytes(t, ota, mac, rest), 1, keep)
       IN  ss' = [ss EXCEPT !.pc = "sent", !.proto = proto, !.account = account,
                            !.payload = rest,
                            !.wire = [iv |-> IV, body |-> body, sealed |-> body]]

\* ------------------------------------------------------------------------
\* socks.Server: the policy and the transport of one connection
\* ------------------------------------------------------------------------
VARIABLES
    sk    \* a socks.Server and the transport call of one connection

socksVars == <<sk>>

\* ServerConfig: UserLevel and the legacy Timeout, in seconds.
ServerConfigs == [UserLevel : 0..MaxLevel, Timeout : 0..MaxTimeout]

\* PolicyManager.ForLevel(level): the timeouts of the level, in seconds.
ForLevel(level) ==
    [Handshake |-> 4 + level, ConnectionIdle |-> 300 + level,
     UplinkOnly |-> 5 + level, DownlinkOnly |-> 30 + level]

\* Server.policy()
ServerPolicy_AnyLevel(config) ==
    IF config.Timeout > 0
      THEN [ForLevel(config.UserLevel) EXCEPT !.ConnectionIdle = config.Timeout]
      ELSE ForLevel(config.UserLevel)

ServerPolicy(config) ==
    IF config.Timeout > 0 /\ config.UserLevel = 0
      THEN [ForLevel(config.UserLevel) EXCEPT !.ConnectionIdle = config.Timeout]
      ELSE ForLevel(config.UserLevel)

\* signal.ErrorOrFinish2(ctx, requestDone, responseDone), given what has
\* happened so far, in order: the cancellation of ctx or the error of a task
\* is returned if it comes before both tasks have finished; nil is returned
\* once both have finished without error; until then the call waits.
RECURSIVE ErrorOrFinish2(_, _)
ErrorOrFinish2(events, finished) ==
    IF finished = 2
      THEN "nil"
      ELSE IF events = <<>>
             THEN "wait"
             ELSE IF Head(events) \in {"requestOK", "responseOK"}
                    THEN ErrorOrFinish2(Tail(events), finished + 1)
                    ELSE "error"

InitSocks ==
    sk = [pc |-> "new", config |-> [UserLevel |-> 0, Timeout |-> 0],
          timeout |-> 0, request |-> "none", response |-> "none",
          events |-> <<>>, input |-> "none", output |-> "none",
          inputCloseError |-> FALSE, outputCloseError |-> FALSE,
          ret |-> "none"]

\* NewServer(ctx, config)
SocksNewServer(config) ==
    /\ sk.pc = "new"
    /\ sk' = [sk EXCEPT !.pc = "idle", !.config = config]

\* transport, up to the Dispatch call: the context of the connection is
\* made and the timer started with the policy's ConnectionIdle.
TransportBegin ==
    /\ sk.pc = "idle"
    /\ sk' = [sk EXCEPT !.pc = "dispatch",
                        !.timeout = ServerPolicy(sk.config).ConnectionIdle]

\* transport: Dispatch fails and its error is returned, or it gives the ray
\* and the two copy tasks are started.
TransportDispatch(err) ==
    /\ sk.pc = "dispatch"
    /\ sk' = IF err
               THEN [sk EXCEPT !.pc = "returned", !.ret = "error"]
               ELSE [sk EXCEPT !.pc = "wait", !.input = "Open", !.output = "Open",
                               !.request = "run", !.response = "run"]

\* Stream.Close(): a pipe closed already stays as it is.
PipeClose(st) == IF st = "Open" THEN "ClosedOK" ELSE st

\* The request task ends: the copy has failed, or it has reached the end of
\* the client's data and the timer is given DownlinkOnly; the deferred
\* input.Close() runs in both cases.
RequestDone_NoDefer(err) ==
    /\ sk.request = "run"
    /\ sk' = [sk EXCEPT !.request = IF err THEN "err" ELSE "ok",
                        !.events = Append(@, IF err THEN "requestErr" ELSE "requestOK"),
                        !.input = IF err THEN @ ELSE PipeClose(@),
                        !.timeout = IF err THEN @
                                    ELSE ServerPolicy(sk.config).DownlinkOnly]

RequestDone(err) ==
    /\ sk.request = "run"
    /\ sk' = [sk EXCEPT !.request = IF err THEN "err" ELSE "ok",
                        !.events = Append(@, IF err THEN "requestErr" ELSE "requestOK"),
                        !.input = PipeClose(@),
                        !.timeout = IF err THEN @
                                    ELSE ServerPolicy(sk.config).DownlinkOnly]

\* The response task ends: the copy has failed, or it has reached the end of
\* the ray's output and the timer is given UplinkOnly.
ResponseDone(err) ==
    /\ sk.response = "run"
    /\ sk' = [sk EXCEPT !.response = IF err THEN "err" ELSE "ok",
                        !.events = Append(@, IF err THEN "responseErr" ELSE "responseOK"),
                        !.timeout = IF err THEN @
                                    ELSE ServerPolicy(sk.config).UplinkOnly]

\* The context of the connection is cancelled: by the timer after timeout
\* seconds without activity, or with the context it was made from.
ContextCancel ==
    /\ sk.pc \in {"dispatch", "wait"}
    /\ "cancel" \notin {sk.events[i] : i \in DOMAIN sk.events}
    /\ sk' = [sk EXCEPT !.events = Append(@, "cancel")]

\* `input.CloseError(); output.CloseError()`
CloseErrorBoth_InputOnly(s) ==
    [s EXCEPT !.input = "ClosedErr", !.inputCloseError = TRUE]

CloseErrorBoth(s) ==
    [s EXCEPT !.input = "ClosedErr", !.inputCloseError = TRUE,
              !.output = "ClosedErr", !.outputCloseError = TRUE]

\* transport, after ErrorOrFinish2 has returned: an error closes both
\* endpoints with CloseError and is returned, otherwise nil is returned.
TransportReturn ==
    /\ sk.pc = "wait"
    /\ ErrorOrFinish2(sk.events, 0) # "wait"
    /\ sk' = IF ErrorOrFinish2(sk.events, 0) = "error"
               THEN [CloseErrorBoth(sk) EXCEPT !.pc = "returned", !.ret = "error"]
               ELSE [sk EXCEPT !.pc = "returned", !.ret = "nil"]

\* ------------------------------------------------------------------------
\* mux.Client: the Process and fetchOutput tasks of one Client
\* ------------------------------------------------------------------------
VARIABLES
    dl    \* the first Client's Process task and its fetchOutput task

clientVars == <<dl>>

\* The SessionIDs a frame of the downlink can carry: those the client can
\* have allocated and one more.
DownIDs == 1..(MaxDispatch + 1)

\* The frames the inbound ray's Output can carry to fetchOutput; a frame
\* with OptionData is followed by a body.
DownFrames ==
    [id : DownIDs,
     status : {"New", "Keep", "End", "KeepAlive", "Unknown"},
     data : BOOLEAN]

NoDownFrame == [id |-> 0, status |-> "none", data |-> FALSE]

\* What can happen to a frame's body: it is read and written ("ok"), it is
\* read and the write to the session's output fails ("werr"), or reading it
\* fails ("rerr").
BodyIO == {"ok", "werr", "rerr"}

InitClientTasks ==
    dl = [proc |-> "run", fo |-> "run", nread |-> 0, unread |-> 0,
          last |-> NoDownFrame, to |-> 0]

\* The ClientManager of one Client that has had no session yet.
InitMuxClient ==
    /\ concurrency \in 1..MaxConcurrency
    /\ clients = <<1>>
    /\ cl = <<NewClient(0)>>
    /\ disp = Idle
    /\ dispatched = 0
    /\ dlog = [declined |-> <<>>, accepted |-> {}, created |-> 0, dropped |-> FALSE]

\* ClientManager.Dispatch calls client.Dispatch(ctx, outboundRay) on the
\* client while it holds it in its list; what the manager does after a
\* decline is not followed here.
ClientDispatchBegin ==
    /\ disp.st = "idle"
    /\ dispatched < MaxDispatch
    /\ \E i \in 1..Len(clients) : clients[i] = 1
    /\ dispatched' = dispatched + 1
    /\ disp' = [st |-> "size", idx |-> 1, c |-> 1, fresh |-> TRUE,
                ray |-> dispatched + 1]
    /\ dlog' = [declined |-> <<>>, accepted |-> {}, created |-> 0, dropped |-> FALSE]
    /\ UNCHANGED <<concurrency, clients, cl>>

\* NewClient's first task: p.Process returns, with an error or without, and
\* `c.done.Close()` follows.
DoneClose_OnErrorOnly(c, err) == [c EXCEPT !.done = @ \/ err]

DoneClose(c, err) == [c EXCEPT !.done = TRUE]

ClientProcessReturn(err) ==
    /\ dl.proc = "run"
    /\ dl' = [dl EXCEPT !.proc = IF err THEN "failed" ELSE "returned"]
    /\ cl' = [cl EXCEPT ![1] = DoneClose(@, err)]
    /\ UNCHANGED <<concurrency, clients, disp, dispatched, dlog>>

\* ReadMetadata has read the metadata of f: a body follows it if f has
\* OptionData.
ReadMetadata(d, f) ==
    [d EXCEPT !.nread = @ + 1, !.last = f, !.to = 0,
              !.unread = @ + (IF f.data THEN 1 ELSE 0)]

\* drain(reader): the body is read and discarded.
Drain_Nothing(d, io) == [d |-> d, err |-> io = "rerr"]

Drain(d, io) ==
    [d |-> IF io = "rerr" THEN d ELSE [d EXCEPT !.unread = @ - 1],
     err |-> io = "rerr"]

\* buf.Copy(s.NewReader(reader), s.output, buf.IgnoreWriterError()): the body
\* is read and written to the output of the session's ray; the error of the
\* write is dropped.
CopyToSession(d, ray, io) ==
    [d |-> IF io = "rerr" THEN d
           ELSE [d EXCEPT !.unread = @ - 1,
                          !.to = IF io = "ok" THEN ray ELSE 0],
     err |-> io = "rerr"]

\* Client.handleStatueKeepAlive and Client.handleStatusNew
ClientHandleStatusKeepAlive(sm, d, f, io) ==
    IF f.data
      THEN [sm |-> sm] @@ Drain(d, io)
      ELSE [sm |-> sm, d |-> d, err |-> FALSE]

ClientHandleStatusNew(sm, d, f, io) ==
    IF f.data
      THEN [sm |-> sm] @@ Drain(d, io)
      ELSE [sm |-> sm, d |-> d, err |-> FALSE]

\* Client.handleStatusKeep
ClientHandleStatusKeep(sm, d, f, io) ==
    IF ~f.data
      THEN [sm |-> sm, d |-> d, err |-> FALSE]
      ELSE IF Get(sm, f.id).found
             THEN [sm |-> sm] @@ CopyToSession(d, Get(sm, f.id).ray, io)
             ELSE [sm |-> sm] @@ Drain(d, io)

\* Client.handleStatusEnd: s.Close() removes the session from the manager.
ClientHandleStatusEnd(sm, d, f, io) ==
    LET closed == IF Get(sm, f.id).found THEN Remove(sm, f.id) ELSE sm
    IN  IF f.data
          THEN [sm |-> closed] @@ Drain(d, io)
          ELSE [sm |-> closed, d |-> d, err |-> FALSE]

\* fetchOutput's switch on meta.SessionStatus
ClientHandle(sm, d, f, io) ==
    CASE f.status = "KeepAlive" -> ClientHandleStatusKeepAlive(sm, d, f, io)
      [] f.status = "End" -> ClientHandleStatusEnd(sm, d, f, io)
      [] f.status = "New" -> ClientHandleStatusNew(sm, d, f, io)
      [] f.status = "Keep" -> ClientHandleStatusKeep(sm, d, f, io)

\* fetchOutput returns: the deferred `m.done.Close()`.
FetchOutputExit(c) == [c EXCEPT !.done = TRUE]

\* fetchOutput, one turn of its loop with a frame read: the frame is handled
\* by its status; an unknown status and the error of a handler end the task.
FetchOutputFrame(f, io) ==
    /\ dl.fo = "run"
    /\ dl.nread < MaxDownFrames
    /\ io # "ok" => f.data /\ f.status # "Unknown"
    /\ io = "werr" => f.status = "Keep" /\ Get(cl[1].sm, f.id).found
    /\ IF f.status = "Unknown"
         THEN /\ dl' = [ReadMetadata(dl, f) EXCEPT !.fo = "unknown status"]
              /\ cl' = [cl EXCEPT ![1] = FetchOutputExit(@)]
         ELSE LET h == ClientHandle(cl[1].sm, ReadMetadata(dl, f), f, io)
              IN  /\ dl' = IF h.err THEN [h.d EXCEPT !.fo = "handler"] ELSE h.d
                  /\ cl' = [cl EXCEPT ![1] = IF h.err
                                               THEN FetchOutputExit([@ EXCEPT !.sm = h.sm])
                                               ELSE [@ EXCEPT !.sm = h.sm]]
    /\ UNCHANGED <<concurrency, clients, disp, dispatched, dlog>>

\* fetchOutput, ReadMetadata fails: with io.EOF at the end of the stream, or
\* with another error.
FetchOutputReadFails(why) ==
    /\ dl.fo = "run"
    /\ dl' = [dl EXCEPT !.fo = why]
    /\ cl' = [cl EXCEPT ![1] = FetchOutputExit(@)]
    /\ UNCHANGED <<concurrency, clients, disp, dispatched, dlog>>

\* ------------------------------------------------------------------------
\* proxyman/outbound: Handler.Dispatch and the two ends of its outbound ray
\* ------------------------------------------------------------------------
VARIABLE
    hd    \* one outbound Handler with the ray of one Dispatch call

handlerVars == <<hd>>

\* The errors Process and ClientManager.Dispatch return: nil is <<>>, any
\* other error is the chain of its messages from the outermost to its cause.
ProcessErrors ==
    {<<>>, <<"EOF">>, <<"closed">>, <<"failed to transfer", "EOF">>,
     <<"failed to transfer", "closed">>}

\* errors.Cause(err): the innermost error of the chain.
Cause(err) == err[Len(err)]

\* A stream of the ray: Close() and CloseError() each set a flag of it.
OpenStream == [closed |-> FALSE, err |-> FALSE]

RayClose(s) == [s EXCEPT !.closed = TRUE]

RayCloseError(s) == [s EXCEPT !.err = TRUE]

\* NewHandler: with a multiplexing setting that is enabled the handler has a
\* mux.ClientManager.
NewHandler(mux) ==
    [mux |-> mux, pc |-> "idle", err |-> <<>>, up |-> 0, down |-> 0,
     output |-> OpenStream, input |-> OpenStream, calls |-> <<>>]

InitHandlerPlain == hd = NewHandler(FALSE)

InitHandler == \E mux \in BOOLEAN : hd = NewHandler(mux)

\* Handler.Dispatch is called with an outbound ray.
HandlerDispatchBegin ==
    /\ hd.pc = "idle"
    /\ hd' = [hd EXCEPT !.pc = "dispatch"]

\* While the call runs, the proxy (or the mux client) moves a buffer up from
\* OutboundInput or down to OutboundOutput.
RayMove(dir) ==
    /\ hd.pc = "dispatch"
    /\ IF dir = "up"
         THEN hd.up < MaxMoved /\ hd' = [hd EXCEPT !.up = @ + 1]
         ELSE hd.down < MaxMoved /\ ~hd.output.closed /\ ~hd.output.err
              /\ hd' = [hd EXCEPT !.down = @ + 1]

\* The inbound side of the ray ends its reading of OutboundOutput with
\* CloseError, or its writing to OutboundInput with Close.
InboundCloses(e) ==
    /\ hd.pc = "dispatch"
    /\ IF e = "output"
         THEN ~hd.output.err /\ hd' = [hd EXCEPT !.output = RayCloseError(@)]
         ELSE ~hd.input.closed /\ hd' = [hd EXCEPT !.input = RayClose(@)]

\* `if err != nil && errors.Cause(err) != io.EOF` does not hold.
EndsNormally_NilOnly(err) == err = <<>>

EndsNormally(err) == err = <<>> \/ Cause(err) = "EOF"

\* Handler.Dispatch returns.  With mux, h.mux.Dispatch returned err, and an
\* error closes OutboundOutput with CloseError.  Without mux,
\* h.proxy.Process returned err: OutboundOutput is closed with Close or with
\* CloseError, and OutboundInput with CloseError.
HandlerDispatchReturn(err) ==
    /\ hd.pc = "dispatch"
    /\ hd' = IF hd.mux
               THEN IF err # <<>>
                      THEN [hd EXCEPT !.pc = "returned", !.err = err,
                                      !.output = RayCloseError(@),
                                      !.calls = @ \o <<<<"output", "CloseError">>>>]
                      ELSE [hd EXCEPT !.pc = "returned", !.err = err]
               ELSE IF EndsNormally(err)
                      THEN [hd EXCEPT !.pc = "returned", !.err = err,
                                      !.output = RayClose(@),
                                      !.input = RayCloseError(@),
                                      !.calls = @ \o <<<<"output", "Close">>,
                                                       <<"input", "CloseError">>>>]
                      ELSE [hd EXCEPT !.pc = "returned", !.err = err,
                                      !.output = RayCloseError(@),
                                      !.input = RayCloseError(@),
                                      !.calls = @ \o <<<<"output", "CloseError">>,
                                                       <<"input", "CloseError">>>>]

\* ------------------------------------------------------------------------
\* socks.Server: the inactivity timer of one transport call
\* ------------------------------------------------------------------------
VARIABLE
    tm    \* the timer of the connection and the buffers its copies moved

timerVars == <<tm>>

socksLiveVars == <<sk, tm>>

\* signal.CancelAfterInactivity(ctx, cancel, timeout): quiet counts the
\* seconds since the last activity.
InitTimer == tm = [quiet |-> 0, moved |-> 0, fired |-> FALSE]

\* ErrorOrFinish2 still waits in transport, and the context is not cancelled.
Waiting ==
    /\ sk.pc = "wait"
    /\ ErrorOrFinish2(sk.events, 0) = "wait"

\* ActivityTimer.UpdateActivity()
UpdateActivity(t) == [t EXCEPT !.quiet = 0]

\* buf.Copy(..., buf.UpdateActivity(timer)) of the request or of the response
\* task moves one buffer.
CopyMove_NoActivity(task) ==
    /\ sk.pc = "wait"
    /\ IF task = "request" THEN sk.request = "run" ELSE sk.response = "run"
    /\ tm.moved < MaxCopyMoves
    /\ ~tm.fired
    /\ tm' = [tm EXCEPT !.moved = @ + 1]
    /\ sk' = sk

CopyMove(task) ==
    /\ sk.pc = "wait"
    /\ IF task = "request" THEN sk.request = "run" ELSE sk.response = "run"
    /\ tm.moved < MaxCopyMoves
    /\ ~tm.fired
    /\ tm' = [UpdateActivity(tm) EXCEPT !.moved = @ + 1]
    /\ sk' = sk

\* A second passes in which no buffer is moved and after which the timeout
\* has not yet run out.
SecondPasses ==
    /\ Waiting
    /\ ~tm.fired
    /\ tm.quiet < MaxQuiet
    /\ tm.quiet + 1 < sk.timeout
    /\ tm' = [tm EXCEPT !.quiet = @ + 1]
    /\ sk' = sk

\* The time to the end of the timeout passes without a buffer moved, and the
\* timer cancels the context of the connection.
TimerFires ==
    /\ Waiting
    /\ ~tm.fired
    /\ ContextCancel
    /\ tm' = [tm EXCEPT !.fired = TRUE,
                        !.quiet = IF @ < sk.timeout THEN sk.timeout ELSE @]

\* ------------------------------------------------------------------------
\* Specifications
\* ------------------------------------------------------------------------
vars == <<instVars, mgrVars, muxVars, wireVars, workerVars, chunkVars, ssVars, socksVars, clientVars, handlerVars, timerVars>>

NextInstance ==
    \/ \E tag \in LifecycleTags : RegisterFeatureSet(tag) /\ UNCHANGED <<mgrVars, muxVars, wireVars, workerVars, chunkVars, ssVars, socksVars, clientVars, handlerVars, timerVars>>
    \/ \E id \in pending, err \in BOOLEAN : RegisterFeatureLocked(id, err) /\ UNCHANGED <<mgrVars, muxVars, wireVars, workerVars, chunkVars, ssVars, socksVars, clientVars, handlerVars, timerVars>>
    \/ InstanceStartBegin /\ UNCHANGED <<mgrVars, muxVars, wireVars, workerVars, chunkVars, ssVars, socksVars, clientVars, handlerVars, timerVars>>
    \/ \E err \in BOOLEAN : InstanceStartStep(err) /\ UNCHANGED <<mgrVars, muxVars, wireVars, workerVars, chunkVars, ssVars, socksVars, clientVars, handlerVars, timerVars>>
    \/ InstanceStartReturn /\ UNCHANGED <<mgrVars, muxVars, wireVars, workerVars, chunkVars, ssVars, socksVars, clientVars, handlerVars, timerVars>>
    \/ InstanceCloseBegin /\ UNCHANGED <<mgrVars, muxVars, wireVars, workerVars, chunkVars, ssVars, socksVars, clientVars, handlerVars, timerVars>>
    \/ \E err \in BOOLEAN : InstanceCloseStep(err) /\ UNCHANGED <<mgrVars, muxVars, wireVars, workerVars, chunkVars, ssVars, socksVars, clientVars, handlerVars, timerVars>>
    \/ InstanceCloseReturn /\ UNCHANGED <<mgrVars, muxVars, wireVars, workerVars, chunkVars, ssVars, socksVars, clientVars, handlerVars, timerVars>>

NextManager ==
    \/ \E tag \in HandlerTags : AddHandler(tag) /\ UNCHANGED <<instVars, muxVars, wireVars, workerVars, chunkVars, ssVars, socksVars, clientVars, handlerVars, timerVars>>
    \/ \E tag \in LookupTags : ManagerGetHandler(tag) /\ UNCHANGED <<instVars, muxVars, wireVars, workerVars, chunkVars, ssVars, socksVars, clientVars, handlerVars, timerVars>>
    \/ \E fails \in SUBSET HandlerIds : ManagerStart(fails) /\ UNCHANGED <<instVars, muxVars, wireVars, workerVars, chunkVars, ssVars, socksVars, clientVars, handlerVars, timerVars>>
    \/ \E fails \in SUBSET HandlerIds : ManagerClose(fails) /\ UNCHANGED <<instVars, muxVars, wireVars, workerVars, chunkVars, ssVars, socksVars, clientVars, handlerVars, timerVars>>

NextMux ==
    \/ DispatchBegin /\ UNCHANGED <<instVars, mgrVars, wireVars, workerVars, chunkVars, ssVars, socksVars, clientVars, handlerVars, timerVars>>
    \/ ClientDispatchSize /\ UNCHANGED <<instVars, mgrVars, wireVars, workerVars, chunkVars, ssVars, socksVars, clientVars, handlerVars, timerVars>>
    \/ ClientDispatchDone /\ UNCHANGED <<instVars, mgrVars, wireVars, workerVars, chunkVars, ssVars, socksVars, clientVars, handlerVars, timerVars>>
    \/ ClientDispatchAllocate /\ UNCHANGED <<instVars, mgrVars, wireVars, workerVars, chunkVars, ssVars, socksVars, clientVars, handlerVars, timerVars>>
    \/ ClientManagerNewClient /\ UNCHANGED <<instVars, mgrVars, wireVars, workerVars, chunkVars, ssVars, socksVars, clientVars, handlerVars, timerVars>>
    \/ \E c \in DOMAIN cl : \E x \in cl[c].sm.sessions : SessionClose(c, x.id) /\ UNCHANGED <<instVars, mgrVars, wireVars, workerVars, chunkVars, ssVars, socksVars, clientVars, handlerVars, timerVars>>
    \/ \E c \in ClientIds : ProcessReturn(c) /\ UNCHANGED <<instVars, mgrVars, wireVars, workerVars, chunkVars, ssVars, socksVars, clientVars, handlerVars, timerVars>>
    \/ \E c \in ClientIds : MonitorTick(c) /\ UNCHANGED <<instVars, mgrVars, wireVars, workerVars, chunkVars, ssVars, socksVars, clientVars, handlerVars, timerVars>>
    \/ \E c \in ClientIds : MonitorCloseIfNoSession(c) /\ UNCHANGED <<instVars, mgrVars, wireVars, workerVars, chunkVars, ssVars, socksVars, clientVars, handlerVars, timerVars>>
    \/ \E c \in ClientIds : MonitorReap(c) /\ UNCHANGED <<instVars, mgrVars, wireVars, workerVars, chunkVars, ssVars, socksVars, clientVars, handlerVars, timerVars>>
    \/ \E c \in ClientIds : MonitorDone(c) /\ UNCHANGED <<instVars, mgrVars, wireVars, workerVars, chunkVars, ssVars, socksVars, clientVars, handlerVars, timerVars>>
    \/ \E c \in ClientIds : OnClientFinish(c) /\ UNCHANGED <<instVars, mgrVars, wireVars, workerVars, chunkVars, ssVars, socksVars, clientVars, handlerVars, timerVars>>

\* The ClientManager of the specifications that are not about mux: it has
\* dispatched nothing.
InitMuxFresh ==
    /\ InitMux
    /\ concurrency = 1
    /\ clients = <<>>

InitFresh == InitInstance /\ InitManager /\ InitMuxFresh /\ InitWire /\ InitServer /\ InitChunk /\ InitShadowsocks /\ InitSocks /\ InitClientTasks /\ InitHandlerPlain /\ InitTimer

InitClientManager == InitInstance /\ InitManager /\ InitMux /\ InitWire /\ InitServer /\ InitChunk /\ InitShadowsocks /\ InitSocks /\ InitClientTasks /\ InitHandlerPlain /\ InitTimer

SpecInstance == InitFresh /\ [][NextInstance]_vars

\* RegisterFeature calls made one after the other, with every tag.
NextSlots ==
    \/ \E tag \in Tags : pending = {} /\ RegisterFeatureSet(tag) /\ UNCHANGED <<mgrVars, muxVars, wireVars, workerVars, chunkVars, ssVars, socksVars, clientVars, handlerVars, timerVars>>
    \/ \E id \in pending, err \in BOOLEAN : RegisterFeatureLocked(id, err) /\ UNCHANGED <<mgrVars, muxVars, wireVars, workerVars, chunkVars, ssVars, socksVars, clientVars, handlerVars, timerVars>>

SpecSlots == InitFresh /\ [][NextSlots]_vars

SpecManager == InitFresh /\ [][NextManager]_vars

SpecMux == InitClientManager /\ [][NextMux]_vars

\* The scheduler runs every task that can take a step: a Dispatch call that
\* has begun goes on to its return, a monitor's ticker fires, a monitor that
\* can take a step takes it, and onClientFinish gets the lock once it is free.
\* Nothing makes a new Dispatch call, a session's end or Process's return
\* happen.
MuxFairness ==
    /\ WF_muxVars(ClientDispatchSize)
    /\ WF_muxVars(ClientDispatchDone)
    /\ WF_muxVars(ClientDispatchAllocate)
    /\ WF_muxVars(ClientManagerNewClient)
    /\ \A c \in ClientIds :
         /\ WF_muxVars(MonitorTick(c))
         /\ WF_muxVars(MonitorCloseIfNoSession(c))
         /\ WF_muxVars(MonitorReap(c))
         /\ WF_muxVars(MonitorDone(c))
         /\ WF_muxVars(OnClientFinish(c))

SpecMuxLive ==
    InitClientManager /\ [][NextMux]_vars /\ MuxFairness

NextWire ==
    \/ \E s \in SessionIDs : FetchInputBegin(s) /\ UNCHANGED <<instVars, mgrVars, muxVars, workerVars, chunkVars, ssVars, socksVars, clientVars, handlerVars, timerVars>>
    \/ \E s \in SessionIDs, r \in {"data", "eof", "err"} : CopyRead(s, r) /\ UNCHANGED <<instVars, mgrVars, muxVars, workerVars, chunkVars, ssVars, socksVars, clientVars, handlerVars, timerVars>>
    \/ \E s \in SessionIDs : CopyWrite(s) /\ UNCHANGED <<instVars, mgrVars, muxVars, workerVars, chunkVars, ssVars, socksVars, clientVars, handlerVars, timerVars>>
    \/ \E s \in SessionIDs : FetchInputSessionClose(s) /\ UNCHANGED <<instVars, mgrVars, muxVars, workerVars, chunkVars, ssVars, socksVars, clientVars, handlerVars, timerVars>>
    \/ \E s \in SessionIDs : FetchInputWriterClose(s) /\ UNCHANGED <<instVars, mgrVars, muxVars, workerVars, chunkVars, ssVars, socksVars, clientVars, handlerVars, timerVars>>
    \/ StreamClose /\ UNCHANGED <<instVars, mgrVars, muxVars, workerVars, chunkVars, ssVars, socksVars, clientVars, handlerVars, timerVars>>

SpecWire == InitFresh /\ [][NextWire]_vars

NextWorker ==
    \/ wk.st = "none" /\ ServerDispatch(MuxDestination) /\ UNCHANGED <<instVars, mgrVars, muxVars, wireVars, chunkVars, ssVars, socksVars, clientVars, handlerVars, timerVars>>
    \/ \E f \in FramesIn(wk.nread + 1) : HandleStatusNew(f) /\ UNCHANGED <<instVars, mgrVars, muxVars, wireVars, chunkVars, ssVars, socksVars, clientVars, handlerVars, timerVars>>
    \/ \E f \in FramesIn(wk.nread + 1) : HandleStatusNewFailed(f) /\ UNCHANGED <<instVars, mgrVars, muxVars, wireVars, chunkVars, ssVars, socksVars, clientVars, handlerVars, timerVars>>
    \/ \E f \in FramesIn(wk.nread + 1) : HandleStatusKeep(f) /\ UNCHANGED <<instVars, mgrVars, muxVars, wireVars, chunkVars, ssVars, socksVars, clientVars, handlerVars, timerVars>>
    \/ \E f \in FramesIn(wk.nread + 1) : HandleStatusEnd(f) /\ UNCHANGED <<instVars, mgrVars, muxVars, wireVars, chunkVars, ssVars, socksVars, clientVars, handlerVars, timerVars>>
    \/ \E f \in FramesIn(wk.nread + 1) : HandleStatusKeepAlive(f) /\ UNCHANGED <<instVars, mgrVars, muxVars, wireVars, chunkVars, ssVars, socksVars, clientVars, handlerVars, timerVars>>
    \/ \E t \in wk.tasks : HandleReturn(t) /\ UNCHANGED <<instVars, mgrVars, muxVars, wireVars, chunkVars, ssVars, socksVars, clientVars, handlerVars, timerVars>>
    \/ \E k \in DOMAIN wk.rays : InnerInputClose(k) /\ UNCHANGED <<instVars, mgrVars, muxVars, wireVars, chunkVars, ssVars, socksVars, clientVars, handlerVars, timerVars>>
    \/ RunEOF /\ UNCHANGED <<instVars, mgrVars, muxVars, wireVars, chunkVars, ssVars, socksVars, clientVars, handlerVars, timerVars>>
    \/ RunCancel /\ UNCHANGED <<instVars, mgrVars, muxVars, wireVars, chunkVars, ssVars, socksVars, clientVars, handlerVars, timerVars>>
    \/ \E err \in {"metadata", "unknown status"} : HandleFrameFails(err) /\ UNCHANGED <<instVars, mgrVars, muxVars, wireVars, chunkVars, ssVars, socksVars, clientVars, handlerVars, timerVars>>

SpecWorker == InitFresh /\ [][NextWorker]_vars

NextServer ==
    \/ \E dest \in Destinations : ServerDispatch(dest) /\ UNCHANGED <<instVars, mgrVars, muxVars, wireVars, chunkVars, ssVars, socksVars, clientVars, handlerVars, timerVars>>

SpecServer == InitFresh /\ [][NextServer]_vars

NextChunk ==
    \/ \E mode \in {"Stream", "Packet"} : NewAuthentication(mode) /\ UNCHANGED <<instVars, mgrVars, muxVars, wireVars, workerVars, ssVars, socksVars, clientVars, handlerVars, timerVars>>
    \/ \E lens \in Shapes : WriteMultiBuffer(lens, MaxWrites) /\ UNCHANGED <<instVars, mgrVars, muxVars, wireVars, workerVars, ssVars, socksVars, clientVars, handlerVars, timerVars>>
    \/ StreamEnd /\ UNCHANGED <<instVars, mgrVars, muxVars, wireVars, workerVars, ssVars, socksVars, clientVars, handlerVars, timerVars>>
    \/ ReadMultiBuffer /\ UNCHANGED <<instVars, mgrVars, muxVars, wireVars, workerVars, ssVars, socksVars, clientVars, handlerVars, timerVars>>
    \/ ReadMultiBufferEOF /\ UNCHANGED <<instVars, mgrVars, muxVars, wireVars, workerVars, ssVars, socksVars, clientVars, handlerVars, timerVars>>

SpecChunk == InitFresh /\ [][NextChunk]_vars

\* One stream through a codec with one of the faults, and frames changed on
\* their way.
NextChunkFault ==
    \/ \E mode \in {"Stream", "Packet"}, c \in CodecFaults : NewAuthenticationWith(mode, c) /\ UNCHANGED <<instVars, mgrVars, muxVars, wireVars, workerVars, ssVars, socksVars, clientVars, handlerVars, timerVars>>
    \/ \E lens \in Shapes : WriteMultiBuffer(lens, MaxFaultWrites) /\ UNCHANGED <<instVars, mgrVars, muxVars, wireVars, workerVars, ssVars, socksVars, clientVars, handlerVars, timerVars>>
    \/ \E i \in 1..(MaxFaultWrites * (PayloadSize + 1)) : Tamper(i) /\ UNCHANGED <<instVars, mgrVars, muxVars, wireVars, workerVars, ssVars, socksVars, clientVars, handlerVars, timerVars>>
    \/ StreamEnd /\ UNCHANGED <<instVars, mgrVars, muxVars, wireVars, workerVars, ssVars, socksVars, clientVars, handlerVars, timerVars>>
    \/ ReadMultiBuffer /\ UNCHANGED <<instVars, mgrVars, muxVars, wireVars, workerVars, ssVars, socksVars, clientVars, handlerVars, timerVars>>
    \/ ReadMultiBufferEOF /\ UNCHANGED <<instVars, mgrVars, muxVars, wireVars, workerVars, ssVars, socksVars, clientVars, handlerVars, timerVars>>

SpecChunkFault == InitFresh /\ [][NextChunkFault]_vars

\* A stream of one-byte MultiBuffers, long enough for the nonces to go once
\* round, with at most MaxInFlight frames written and not yet read.
NextNonce ==
    \/ \E mode \in {"Stream", "Packet"} : NewAuthentication(mode) /\ UNCHANGED <<instVars, mgrVars, muxVars, wireVars, workerVars, ssVars, socksVars, clientVars, handlerVars, timerVars>>
    \/ Len(aw.frames) - ar.pos < MaxInFlight /\ WriteMultiBuffer(<<1>>, NonceSpace + NonceWrap) /\ UNCHANGED <<instVars, mgrVars, muxVars, wireVars, workerVars, ssVars, socksVars, clientVars, handlerVars, timerVars>>
    \/ StreamEnd /\ UNCHANGED <<instVars, mgrVars, muxVars, wireVars, workerVars, ssVars, socksVars, clientVars, handlerVars, timerVars>>
    \/ ReadMultiBuffer /\ UNCHANGED <<instVars, mgrVars, muxVars, wireVars, workerVars, ssVars, socksVars, clientVars, handlerVars, timerVars>>
    \/ ReadMultiBufferEOF /\ UNCHANGED <<instVars, mgrVars, muxVars, wireVars, workerVars, ssVars, socksVars, clientVars, handlerVars, timerVars>>

SpecNonce == InitFresh /\ [][NextNonce]_vars

NextShadowsocks ==
    \/ \E a \in Accounts, r \in Requests : ClientWriteTCPRequest(a, r) /\ UNCHANGED <<instVars, mgrVars, muxVars, wireVars, workerVars, chunkVars, socksVars, clientVars, handlerVars, timerVars>>
    \/ \E a \in Accounts, r \in Requests, p \in Payloads : ClientEncodeUDPPacket(a, r, p) /\ UNCHANGED <<instVars, mgrVars, muxVars, wireVars, workerVars, chunkVars, socksVars, clientVars, handlerVars, timerVars>>
    \/ \E i \in DOMAIN ss.wire.body, bit \in {1, OTABit} : ChangeOnTheWay(i, bit) /\ UNCHANGED <<instVars, mgrVars, muxVars, wireVars, workerVars, chunkVars, socksVars, clientVars, handlerVars, timerVars>>
    \/ ServerReadTCPSession /\ UNCHANGED <<instVars, mgrVars, muxVars, wireVars, workerVars, chunkVars, socksVars, clientVars, handlerVars, timerVars>>
    \/ ServerDecodeUDPPacket /\ UNCHANGED <<instVars, mgrVars, muxVars, wireVars, workerVars, chunkVars, socksVars, clientVars, handlerVars, timerVars>>

SpecShadowsocks == InitFresh /\ [][NextShadowsocks]_vars

\* A server and a peer that sends what no client of this code writes:
\* headers and packets of any type, cut anywhere, with a right or a wrong MAC.
NextMalformed ==
    \/ \E a \in Accounts, t \in HeaderTypes, ota \in BOOLEAN, mac \in BOOLEAN, keep \in 0..MaxHeader : PeerSends("tcp", a, t, ota, mac, <<>>, keep) /\ UNCHANGED <<instVars, mgrVars, muxVars, wireVars, workerVars, chunkVars, socksVars, clientVars, handlerVars, timerVars>>
    \/ \E a \in Accounts, t \in HeaderTypes, ota \in BOOLEAN, mac \in BOOLEAN, p \in Payloads, keep \in 0..MaxHeader : PeerSends("udp", a, t, ota, mac, p, keep) /\ UNCHANGED <<instVars, mgrVars, muxVars, wireVars, workerVars, chunkVars, socksVars, clientVars, handlerVars, timerVars>>
    \/ ServerReadTCPSession /\ UNCHANGED <<instVars, mgrVars, muxVars, wireVars, workerVars, chunkVars, socksVars, clientVars, handlerVars, timerVars>>
    \/ ServerDecodeUDPPacket /\ UNCHANGED <<instVars, mgrVars, muxVars, wireVars, workerVars, chunkVars, socksVars, clientVars, handlerVars, timerVars>>

SpecMalformed == InitFresh /\ [][NextMalformed]_vars

NextSocks ==
    \/ \E config \in ServerConfigs : SocksNewServer(config) /\ UNCHANGED <<instVars, mgrVars, muxVars, wireVars, workerVars, chunkVars, ssVars, clientVars, handlerVars, timerVars>>
    \/ TransportBegin /\ UNCHANGED <<instVars, mgrVars, muxVars, wireVars, workerVars, chunkVars, ssVars, clientVars, handlerVars, timerVars>>
    \/ \E err \in BOOLEAN : TransportDispatch(err) /\ UNCHANGED <<instVars, mgrVars, muxVars, wireVars, workerVars, chunkVars, ssVars, clientVars, handlerVars, timerVars>>
    \/ \E err \in BOOLEAN : RequestDone(err) /\ UNCHANGED <<instVars, mgrVars, muxVars, wireVars, workerVars, chunkVars, ssVars, clientVars, handlerVars, timerVars>>
    \/ \E err \in BOOLEAN : ResponseDone(err) /\ UNCHANGED <<instVars, mgrVars, muxVars, wireVars, workerVars, chunkVars, ssVars, clientVars, handlerVars, timerVars>>
    \/ ContextCancel /\ UNCHANGED <<instVars, mgrVars, muxVars, wireVars, workerVars, chunkVars, ssVars, clientVars, handlerVars, timerVars>>
    \/ TransportReturn /\ UNCHANGED <<instVars, mgrVars, muxVars, wireVars, workerVars, chunkVars, ssVars, clientVars, handlerVars, timerVars>>

SpecSocks == InitFresh /\ [][NextSocks]_vars

InitClient == InitInstance /\ InitManager /\ InitMuxClient /\ InitWire /\ InitServer /\ InitChunk /\ InitShadowsocks /\ InitSocks /\ InitClientTasks /\ InitHandlerPlain /\ InitTimer

\* One Client: the Dispatch calls made on it, the sessions that end, and its
\* Process and fetchOutput tasks.
NextClient ==
    \/ ClientDispatchBegin /\ UNCHANGED <<instVars, mgrVars, wireVars, workerVars, chunkVars, ssVars, socksVars, clientVars, handlerVars, timerVars>>
    \/ ClientDispatchSize /\ UNCHANGED <<instVars, mgrVars, wireVars, workerVars, chunkVars, ssVars, socksVars, clientVars, handlerVars, timerVars>>
    \/ ClientDispatchDone /\ UNCHANGED <<instVars, mgrVars, wireVars, workerVars, chunkVars, ssVars, socksVars, clientVars, handlerVars, timerVars>>
    \/ ClientDispatchAllocate /\ UNCHANGED <<instVars, mgrVars, wireVars, workerVars, chunkVars, ssVars, socksVars, clientVars, handlerVars, timerVars>>
    \/ \E x \in cl[1].sm.sessions : SessionClose(1, x.id) /\ UNCHANGED <<instVars, mgrVars, wireVars, workerVars, chunkVars, ssVars, socksVars, clientVars, handlerVars, timerVars>>
    \/ \E err \in BOOLEAN : ClientProcessReturn(err) /\ UNCHANGED <<instVars, mgrVars, wireVars, workerVars, chunkVars, ssVars, socksVars, handlerVars, timerVars>>
    \/ \E f \in DownFrames, io \in BodyIO : FetchOutputFrame(f, io) /\ UNCHANGED <<instVars, mgrVars, wireVars, workerVars, chunkVars, ssVars, socksVars, handlerVars, timerVars>>
    \/ \E why \in {"EOF", "metadata"} : FetchOutputReadFails(why) /\ UNCHANGED <<instVars, mgrVars, wireVars, workerVars, chunkVars, ssVars, socksVars, handlerVars, timerVars>>

SpecClient == InitClient /\ [][NextClient]_vars

InitOutbound == InitInstance /\ InitManager /\ InitMuxFresh /\ InitWire /\ InitServer /\ InitChunk /\ InitShadowsocks /\ InitSocks /\ InitClientTasks /\ InitHandler /\ InitTimer

\* One Dispatch call of an outbound Handler, with or without mux.
NextHandler ==
    \/ HandlerDispatchBegin /\ UNCHANGED <<instVars, mgrVars, muxVars, wireVars, workerVars, chunkVars, ssVars, socksVars, clientVars, timerVars>>
    \/ \E dir \in {"up", "down"} : RayMove(dir) /\ UNCHANGED <<instVars, mgrVars, muxVars, wireVars, workerVars, chunkVars, ssVars, socksVars, clientVars, timerVars>>
    \/ \E e \in {"output", "input"} : InboundCloses(e) /\ UNCHANGED <<instVars, mgrVars, muxVars, wireVars, workerVars, chunkVars, ssVars, socksVars, clientVars, timerVars>>
    \/ \E err \in ProcessErrors : HandlerDispatchReturn(err) /\ UNCHANGED <<instVars, mgrVars, muxVars, wireVars, workerVars, chunkVars, ssVars, socksVars, clientVars, timerVars>>

SpecHandler == InitOutbound /\ [][NextHandler]_vars

\* One connection of a socks.Server with its inactivity timer.
NextSocksLive ==
    \/ \E config \in ServerConfigs : SocksNewServer(config) /\ UNCHANGED <<instVars, mgrVars, muxVars, wireVars, workerVars, chunkVars, ssVars, clientVars, handlerVars, timerVars>>
    \/ TransportBegin /\ UNCHANGED <<instVars, mgrVars, muxVars, wireVars, workerVars, chunkVars, ssVars, clientVars, handlerVars, timerVars>>
    \/ \E err \in BOOLEAN : TransportDispatch(err) /\ UNCHANGED <<instVars, mgrVars, muxVars, wireVars, workerVars, chunkVars, ssVars, clientVars, handlerVars, timerVars>>
    \/ \E err \in BOOLEAN : RequestDone(err) /\ UNCHANGED <<instVars, mgrVars, muxVars, wireVars, workerVars, chunkVars, ssVars, clientVars, handlerVars, timerVars>>
    \/ \E err \in BOOLEAN : ResponseDone(err) /\ UNCHANGED <<instVars, mgrVars, muxVars, wireVars, workerVars, chunkVars, ssVars, clientVars, handlerVars, timerVars>>
    \/ ContextCancel /\ UNCHANGED <<instVars, mgrVars, muxVars, wireVars, workerVars, chunkVars, ssVars, clientVars, handlerVars, timerVars>>
    \/ TransportReturn /\ UNCHANGED <<instVars, mgrVars, muxVars, wireVars, workerVars, chunkVars, ssVars, clientVars, handlerVars, timerVars>>
    \/ \E task \in {"request", "response"} : CopyMove(task) /\ UNCHANGED <<instVars, mgrVars, muxVars, wireVars, workerVars, chunkVars, ssVars, clientVars, handlerVars>>
    \/ SecondPasses /\ UNCHANGED <<instVars, mgrVars, muxVars, wireVars, workerVars, chunkVars, ssVars, clientVars, handlerVars>>
    \/ TimerFires /\ UNCHANGED <<instVars, mgrVars, muxVars, wireVars, workerVars, chunkVars, ssVars, clientVars, handlerVars>>

\* Time goes on while transport waits, so that the timer fires unless the
\* wait ends before; and transport returns once ErrorOrFinish2 has returned.
\* Nothing makes a copy move a buffer or end.
SocksFairness ==
    /\ WF_socksLiveVars(TimerFires)
    /\ WF_socksLiveVars(TransportReturn /\ UNCHANGED timerVars)

SpecSocksLive == InitFresh /\ [][NextSocksLive]_vars /\ SocksFairness

\* ------------------------------------------------------------------------
\* Properties of core.Instance
\* ------------------------------------------------------------------------
\* The features whose Start() the latest Instance.Start invoked, in order.
StartCallFeatures == [i \in 1..Len(startCalls) |-> startCalls[i].f]

C1_StartCallsInOrder ==
    /\ Len(startCalls) <= Len(features)
    /\ \A i \in 1..Len(startCalls) : startCalls[i].f = features[i]
    /\ \A i \in 1..Len(startCalls) :
         startCalls[i].err => i = Len(startCalls) /\ startRes = "err" /\ pcStart = 0
    /\ startRes = "err" => Len(startCalls) > 0 /\ startCalls[Len(startCalls)].err

C1_StartReturn ==
    (pcStart > 0 /\ pcStart' = 0) =>
        /\ startRes' \in {"nil", "err"}
        /\ startRes' = "nil" => StartCallFeatures' = features'

\* C1: Instance.Start invokes Start() on the registered features in
\* registration order; a feature's Start error is returned at once and no
\* feature registered after the failing one is started by that call; a call
\* that returns nil has started every registered feature.
C1_StartOrder == []C1_StartCallsInOrder /\ [][C1_StartReturn]_vars

\* Start failed at the second of three features; the third was never started.
C1_Witness ==
    /\ Len(features) = 3
    /\ pcStart = 0
    /\ startRes = "err"
    /\ Len(startCalls) = 2
    /\ startCalls[2].err
    /\ startCount[features[3]] = 0

C2_CloseCalls ==
    /\ closeRes \in {"none", "nil"}
    /\ Len(closeCalls) <= Len(features)
    /\ \A i \in 1..Len(closeCalls) : closeCalls[i] = features[i]
    /\ pcClose > 0 => ~running

C2_CloseStep ==
    /\ pcClose > 0 => features' = features /\ running' = FALSE
    /\ (pcClose > 0 /\ pcClose' = 0) => closeRes' = "nil" /\ closeCalls' = features'

\* C2: every Instance.Close call, the first or a repeated one, leaves
\* running = false and the feature list as it was, invokes Close() on every
\* registered feature in insertion order and returns nil, whatever the
\* features' Close() return.
C2_CloseIdempotent == []C2_CloseCalls /\ [][C2_CloseStep]_vars

\* A second Close returned nil after closing each of at least two features,
\* one of which failed to close.
C2_Witness ==
    /\ closes = 2
    /\ pcClose = 0
    /\ closeRes = "nil"
    /\ closeFailed
    /\ Len(features) >= 2
    /\ closeCalls = features
    /\ ~running

\* C3: once Close has been called, nothing sets running back to true and no
\* feature's Start() is invoked.
C3_ClosedIsTerminal ==
    [][closes > 0 =>
         /\ running' => running
         /\ \A f \in DOMAIN startCount : startCount'[f] = startCount[f]]_vars

\* C4: after a single Instance.Start that returned nil (and no Close), every
\* registered feature was started exactly once: by Instance.Start, or by its
\* own RegisterFeature call, which then returned what that Start() returned.
C4_StartedExactlyOnce ==
    (starts = 1 /\ pcStart = 0 /\ startRes = "nil" /\ closes = 0) =>
        \A i \in 1..Len(features) :
            LET f == features[i]
            IN  /\ startCount[f] = 1
                /\ (regStart[f] = "none") <=> (\E j \in 1..Len(startCalls) : startCalls[j].f = f)
                /\ regRet[f] = IF regStart[f] = "none" THEN "nil" ELSE regStart[f]

\* One feature was started by Instance.Start, one by a RegisterFeature that
\* returned nil and one by a RegisterFeature that returned its Start error.
C4_Witness ==
    /\ starts = 1 /\ pcStart = 0 /\ startRes = "nil" /\ closes = 0
    /\ Len(features) = 3
    /\ Len(startCalls) = 1
    /\ \E f \in DOMAIN regRet : regRet[f] = "err"
    /\ \E f \in DOMAIN regRet : regRet[f] = "nil" /\ regStart[f] = "nil"

\* The feature registered last for capability c, 0 if there is none.
LastRegistered(c) ==
    LET S == {i \in 1..Len(features) : capOf[features[i]] = c}
    IN  IF S = {} THEN 0 ELSE features[CHOOSE i \in S : \A j \in S : j <= i]

\* C5: after RegisterFeature calls made one after the other, each slot is
\* backed by the feature registered last for its capability (none if there is
\* none), and the feature list holds every registered feature in order.
C5_SlotBacking ==
    pending = {} =>
        /\ \A c \in Capabilities : slots[c] = LastRegistered(c)
        /\ features = [i \in 1..Len(capOf) |-> i]

\* A slot was set, a feature of no capability was registered, and the slot
\* was replaced; another slot was never set.
C5_Witness ==
    /\ pending = {}
    /\ Len(features) = 3
    /\ capOf[2] = "Other"
    /\ capOf[1] = capOf[3]
    /\ capOf[1] \in Capabilities
    /\ slots[capOf[1]] = 3
    /\ \E c \in Capabilities : slots[c] = 0

\* ------------------------------------------------------------------------
\* Properties of inbound.Manager
\* ------------------------------------------------------------------------
\* C6: the list holds every added handler in insertion order; GetHandler(tag)
\* finds a handler exactly when a handler with that non-empty tag was added,
\* and then one that carries the tag; a handler without a tag is in the list
\* and is found under no tag.
C6_HandlerRegistry ==
    /\ handlers = [i \in 1..Len(addLog) |-> [id |-> i, tag |-> addLog[i]]]
    /\ \A tag \in LookupTags :
         LET r == GetHandler(taggedHandlers, tag)
         IN  /\ r.found <=> (tag # "" /\ \E i \in 1..Len(addLog) : addLog[i] = tag)
             /\ r.found => r.handler \in 1..Len(addLog) /\ addLog[r.handler] = tag
    /\ lastGet.found =>
         /\ lastGet.tag # ""
         /\ lastGet.handler \in 1..Len(addLog)
         /\ addLog[lastGet.handler] = lastGet.tag

\* An untagged and a tagged handler were added; the tagged one was looked up.
C6_Witness ==
    /\ Len(handlers) = 3
    /\ \E i \in 1..3 : addLog[i] = ""
    /\ lastGet.found
    /\ ~GetHandler(taggedHandlers, "").found
    /\ \E tag \in HandlerTags : tag # "" /\ ~GetHandler(taggedHandlers, tag).found

C7_ManagerCall ==
    (mCalls' = mCalls + 1) =>
        /\ Len(mInvoked') <= Len(handlers)
        /\ \A i \in 1..Len(mInvoked') : mInvoked'[i] = handlers[i].id
        /\ mOp' = "Close" =>
             /\ Len(mInvoked') = Len(handlers)
             /\ \A id \in DOMAIN hState : hState'[id] = "closed"
        /\ mOp' = "Start" =>
             /\ mRes' = "nil" =>
                  /\ Len(mInvoked') = Len(handlers)
                  /\ \A id \in DOMAIN hState : hState'[id] = "started"
             /\ mRes' = "err" =>
                  /\ Len(mInvoked') > 0
                  /\ hState'[mInvoked'[Len(mInvoked')]] = "failed"
                  /\ \A i \in 1..(Len(mInvoked') - 1) : hState'[mInvoked'[i]] = "started"
                  /\ \A i \in (Len(mInvoked') + 1)..Len(handlers) :
                       hState'[handlers[i].id] = hState[handlers[i].id]
             /\ mRes' \in {"nil", "err"}

\* C7: Manager.Start starts the handlers in insertion order and returns at
\* the first failure, leaving the earlier ones started and the later ones
\* untouched; Manager.Close closes every handler in the list, whatever their
\* Close() return and whatever Start did.
C7_ManagerStartClose == [][C7_ManagerCall]_vars

\* Start failed at the second of three handlers, then Close closed all three.
C7_Witness ==
    /\ mCalls = 2
    /\ mOp = "Close"
    /\ mRes = "err"
    /\ Len(handlers) = 3
    /\ mInvoked = <<1, 2, 3>>
    /\ \A id \in 1..3 : hState[id] = "closed"

\* ------------------------------------------------------------------------
\* Properties of mux.ClientManager and mux.Client
\* ------------------------------------------------------------------------
Min(a, b) == IF a <= b THEN a ELSE b

\* C8: every Client holds at most min(Concurrency, maxTotal) sessions and has
\* been allocated at most maxTotal sessions.
C8_SessionBound ==
    \A c \in DOMAIN cl :
        /\ Size(cl[c].sm) <= Min(concurrency, maxTotal)
        /\ Count(cl[c].sm) <= maxTotal

\* One client has used up its maxTotal sessions and has declined the ray,
\* and the client created for the ray holds Concurrency sessions.
C8_Witness ==
    /\ dlog.declined # <<>>
    /\ \E c \in DOMAIN cl, d \in DOMAIN cl :
         /\ c # d
         /\ Count(cl[c].sm) = maxTotal
         /\ Size(cl[d].sm) = concurrency

\* Whether c is in the ClientManager's list.
Listed(c) == \E i \in 1..Len(clients) : clients[i] = c

\* The clients that hold ray r in one of their sessions.
RayHolders(r) == {c \in DOMAIN cl : \E x \in cl[c].sm.sessions : x.ray = r}

C9_State ==
    /\ Cardinality(dlog.accepted) <= 1
    /\ \A r \in 1..dispatched :
         /\ Cardinality(RayHolders(r)) <= 1
         /\ \A c \in RayHolders(r) :
              Cardinality({x \in cl[c].sm.sessions : x.ray = r}) = 1
    /\ \A c \in DOMAIN cl : cl[c].tasks = Count(cl[c].sm)
    /\ disp.st # "idle" =>
         /\ dlog.accepted = {}
         /\ dlog.created = 0 =>
              /\ Len(dlog.declined) <= Len(clients)
              /\ \A i \in 1..Len(dlog.declined) : dlog.declined[i] = clients[i]
         /\ dlog.created # 0 =>
              dlog.declined \in {SubSeq(clients, 1, Len(clients) - 1), clients}

C9_Step ==
    /\ (dispatched' = dispatched /\ dlog'.accepted # dlog.accepted) =>
         \E c \in DOMAIN cl :
            /\ dlog'.accepted = {c}
            /\ dlog.accepted = {}
            /\ disp.st = "alloc"
            /\ Size(cl[c].sm) < concurrency
            /\ Count(cl[c].sm) < maxTotal
            /\ ~cl[c].sm.closed
            /\ Len(dlog.declined) < Len(clients)
            /\ c = clients[Len(dlog.declined) + 1]
            /\ cl'[c].sm.sessions = cl[c].sm.sessions \cup {[id |-> Count(cl[c].sm) + 1, ray |-> disp.ray]}
            /\ \A d \in DOMAIN cl : d # c => cl'[d] = cl[d]
    /\ (dispatched' = dispatched /\ Len(dlog'.declined) > Len(dlog.declined)) =>
         LET c == dlog'.declined[Len(dlog'.declined)]
         IN  /\ \/ Size(cl[c].sm) >= concurrency
                \/ Count(cl[c].sm) >= maxTotal
                \/ cl[c].done
                \/ cl[c].sm.closed
             /\ cl' = cl
    /\ (dispatched' = dispatched /\ dlog'.created # dlog.created) =>
         /\ dlog.declined = clients
         /\ clients' = Append(clients, dlog'.created)
         /\ Len(cl') = Len(cl) + 1
    /\ Len(clients') > Len(clients) => dlog'.created # dlog.created
    /\ (disp'.st = "alloc" /\ disp.st # "alloc") =>
         /\ disp.st = "done"
         /\ ~cl[disp.c].done
         /\ disp'.c = disp.c
    /\ (disp'.st = "done" /\ disp.st # "done") =>
         /\ disp.st = "size"
         /\ Size(cl[disp.c].sm) < concurrency
         /\ Count(cl[disp.c].sm) < maxTotal
         /\ disp'.c = disp.c

\* C9: ClientManager.Dispatch offers the ray to the clients in list order and
\* the first one that accepts gets it; a client accepts only with fewer than
\* Concurrency sessions, fewer than maxTotal sessions ever and an open session
\* manager, and declines only when full, used up, done or drained, without
\* allocating a session or starting a task; a client is created and appended
\* only when every client of the list has declined; no ray is held by two
\* clients or two sessions.
C9_DispatchScan == []C9_State /\ [][C9_Step]_vars

\* The first client of the list has declined and the second has accepted.
C9_Witness ==
    /\ disp.st = "idle"
    /\ Len(clients) >= 2
    /\ dlog.declined = <<clients[1]>>
    /\ dlog.accepted = {clients[2]}
    /\ dlog.created = 0

C10_Ticks == \A c \in DOMAIN cl : cl[c].idleTicks <= 2

C10_ClosedIsRemoved ==
    \A c \in ClientIds :
        (c \in DOMAIN cl /\ Listed(c) /\ cl[c].done) ~> ~Listed(c)

C10_IdleIsReaped ==
    \A c \in ClientIds :
        (c \in DOMAIN cl /\ Listed(c) /\ Size(cl[c].sm) = 0)
            ~> (~Listed(c) \/ Size(cl[c].sm) > 0)

\* C10: a listed client without sessions that gets no further session is
\* removed from the list, its Done latch closed after at most two idle ticks
\* of its monitor; every listed client whose Done latch is closed is removed
\* from the list.
C10_IdleReap == []C10_Ticks /\ C10_ClosedIsRemoved /\ C10_IdleIsReaped

\* A client got a session, the session ended, and the monitor's first idle
\* tick closed Done (the monitor did not go through the teardown of a Done
\* closed by others); the client is off the list.
C10_Witness ==
    \E c \in DOMAIN cl :
        /\ cl[c].tasks = 1
        /\ cl[c].sm.sessions = {}
        /\ cl[c].sm.closed
        /\ cl[c].done
        /\ ~cl[c].inputClosed
        /\ cl[c].idleTicks = 1
        /\ cl[c].mon = "exited"
        /\ ~Listed(c)

\* ------------------------------------------------------------------------
\* Properties of fetchInput and the frames of the shared stream
\* ------------------------------------------------------------------------
\* The frames of session s among the frames q, in order.
FramesOf(q, s) == SelectSeq(q, LAMBDA f : f.id = s)

RECURSIVE FrameData(_)
FrameData(q) == IF q = <<>> THEN <<>> ELSE Head(q).data \o FrameData(Tail(q))

\* q is the beginning of New, Keep*, End: New first and nowhere else, End
\* last and nowhere else.
FrameOrder(q) ==
    \A i \in 1..Len(q) :
        /\ q[i].status = "New" <=> i = 1
        /\ q[i].status = "End" => i = Len(q) /\ i > 1

\* q is the whole of New, Keep*, End.
FrameOrderComplete(q) ==
    /\ FrameOrder(q)
    /\ Len(q) >= 2
    /\ q[Len(q)].status = "End"

\* C11: the frames a session's fetchInput hands to the shared stream are New,
\* then Keep frames, then one End and nothing after it, the New carrying the
\* session's target; their data, concatenated, is what was read from the
\* session's input, in order; the frames the stream has taken for the session
\* are those frames in that order (all of them if the stream was open
\* throughout); the frames of different sessions interleave.
C11_FrameOrder ==
    \A s \in SessionIDs :
        LET e == fin[s].emitted
            onWire == FramesOf(wire, s)
        IN  /\ FrameOrder(e)
            /\ \A i \in 1..Len(e) : e[i].id = s
            /\ e # <<>> => e[1].target = Target(s)
            /\ FrameData(e) \o fin[s].buf = fin[s].read
            /\ fin[s].pc = "done" => FrameOrderComplete(e)
            /\ fin[s].pc # "done" => (e = <<>> \/ e[Len(e)].status # "End")
            /\ Len(onWire) <= Len(e)
            /\ onWire = SubSeq(e, 1, Len(onWire))
            /\ wireOpen => onWire = e

\* Two sessions have run to their End on an open stream, the first with a New,
\* a Keep and an End, and the stream carries a frame of the second between
\* frames of the first and the other way round.
C11_Witness ==
    /\ wireOpen
    /\ \A s \in SessionIDs : fin[s].pc = "done"
    /\ Len(fin[1].read) = 3
    /\ Len(fin[2].read) = 1
    /\ \E i, j, k, l \in 1..Len(wire) :
         /\ i < j /\ j < k /\ k < l
         /\ wire[i].id = 1 /\ wire[j].id = 2 /\ wire[k].id = 1 /\ wire[l].id = 2

\* ------------------------------------------------------------------------
\* mux.Server and ServerWorker: claims
\* ------------------------------------------------------------------------

\* The step in which the worker takes one more frame off its stream.
ReadsFrame == wk'.nread = wk.nread + 1

FrameRead == wk'.last

\* The inner ray the latest New frame with this ID gave, 0 if none.
RayOf(w, id) ==
    LET ks == {k \in DOMAIN w.rays : w.rays[k].id = id}
    IN  IF ks = {} THEN 0 ELSE CHOOSE k \in ks : \A j \in ks : j <= k

\* C12 as stated: every New frame gives one dispatcher call with its target,
\* one session under its SessionID and its data on the new inner ray's input;
\* the data of every later Keep frame with that SessionID is added to that
\* input; Keep and End frames give no dispatcher call.
C12_Original_Step ==
    ReadsFrame =>
        LET f == FrameRead
        IN  /\ f.status = "New" =>
                /\ Len(wk'.calls) = Len(wk.calls) + 1
                /\ wk'.calls[Len(wk'.calls)].target = f.target
                /\ Len(wk'.rays) = Len(wk.rays) + 1
                /\ Cardinality({x \in wk'.sm.sessions : x.id = f.id}) = 1
                /\ wk'.rays[Len(wk'.rays)].input = f.data
            /\ f.status # "New" => wk'.calls = wk.calls
            /\ (f.status = "Keep" /\ RayOf(wk, f.id) # 0) =>
                wk'.rays[RayOf(wk, f.id)].input = wk.rays[RayOf(wk, f.id)].input \o f.data

C12_Amended_Step ==
    /\ ReadsFrame =>
        LET f == FrameRead
            g == Get(wk.sm, f.id)
        IN  /\ f.status = "New" =>
                /\ Len(wk'.calls) = Len(wk.calls) + 1
                /\ wk'.calls[Len(wk'.calls)].target = f.target
                /\ wk'.calls[Len(wk'.calls)].ok =>
                    /\ Len(wk'.rays) = Len(wk.rays) + 1
                    /\ {x \in wk'.sm.sessions : x.id = f.id}
                          = {[id |-> f.id, ray |-> Len(wk'.rays)]}
                    /\ wk'.rays[Len(wk'.rays)].input = f.data
                    /\ wk'.rays[Len(wk'.rays)].target = f.target
                /\ \A k \in DOMAIN wk.rays : wk'.rays[k].input = wk.rays[k].input
            /\ f.status # "New" =>
                /\ wk'.calls = wk.calls
                /\ Len(wk'.rays) = Len(wk.rays)
            /\ f.status = "Keep" =>
                \A k \in DOMAIN wk.rays :
                    wk'.rays[k].input =
                        IF g.found /\ g.ray = k /\ ~wk.rays[k].closed
                          THEN wk.rays[k].input \o f.data
                          ELSE wk.rays[k].input
            /\ f.status \in {"End", "KeepAlive"} =>
                \A k \in DOMAIN wk.rays : wk'.rays[k].input = wk.rays[k].input
    /\ ~ReadsFrame =>
        /\ wk'.calls = wk.calls
        /\ Len(wk'.rays) = Len(wk.rays)
        /\ \A k \in DOMAIN wk.rays : wk'.rays[k].input = wk.rays[k].input

C13_SentinelOnly ==
    /\ \A i \in DOMAIN srv.workers :
          srv.workers[i].addr = muxCoolAddress /\ srv.workers[i].port = muxCoolPort
    /\ \A i \in DOMAIN srv.forwarded :
          ~(srv.forwarded[i].addr = muxCoolAddress /\ srv.forwarded[i].port = muxCoolPort)

\* ------------------------------------------------------------------------
\* crypto: claims
\* ------------------------------------------------------------------------

\* A MultiBuffer that carries data: in a stream, one with at least one byte;
\* in packet mode, one with at least one packet and no empty packet.
DataOnly(lens) ==
    IF aw.mode = "Stream"
      THEN Sum(lens) > 0
      ELSE lens # <<>> /\ \A i \in DOMAIN lens : lens[i] > 0

LastWrite == aw.writes[Len(aw.writes)]

\* The writes so far are MultiBuffers that carry data, except that the last
\* may be the empty MultiBuffer.
DataThenEmpty ==
    /\ \A i \in 1..(Len(aw.writes) - 1) : DataOnly(aw.writes[i])
    /\ aw.writes # <<>> => (DataOnly(LastWrite) \/ LastWrite = <<>>)

Terminated == aw.writes # <<>> /\ LastWrite = <<>>

\* C14 as stated: whatever MultiBuffers were written, empty ones among them,
\* the reader reports no error, and once the writer is done and the reader
\* has reported EOF the bytes read are the bytes written.
C14_RoundTrip ==
    /\ ~ar.err
    /\ (aw.closed /\ ar.eof) => ar.got = aw.written

\* C14, amended: when MultiBuffers that carry data are written, followed by
\* at most one empty MultiBuffer, the reader reports no error, the bytes it
\* has read are the first of the bytes written, it has read them all once it
\* has read every frame, it reports EOF only after it has read them all, and
\* it does report EOF when it reads the frame of the empty MultiBuffer.
C14_RoundTripUntilEmpty ==
    DataThenEmpty =>
        /\ ~ar.err
        /\ Len(ar.got) <= Len(aw.written)
        /\ ar.got = SubSeq(aw.written, 1, Len(ar.got))
        /\ ar.pos = Len(aw.frames) => ar.got = aw.written
        /\ ar.eof => (ar.got = aw.written /\ (Terminated \/ aw.closed))
        /\ (Terminated /\ ar.pos = Len(aw.frames)) => ar.eof

\* Two MultiBuffers with data, one of them split in two chunks or written as
\* two packets, then the empty MultiBuffer: all bytes read, then EOF.
C14_Witness ==
    /\ Len(aw.writes) = 3 /\ Terminated /\ DataThenEmpty
    /\ aw.writes[1] = <<PayloadSize + 1>> /\ aw.writes[2] = <<1, 1>>
    /\ ~aw.closed
    /\ ar.eof /\ ar.got = aw.written /\ Len(ar.got) = PayloadSize + 3
    /\ Len(ar.reads) >= 3

\* The little-endian bytes of k - 1 modulo the number of nonces.
NonceOf(k) ==
    [i \in 1..NonceSize |-> (((k - 1) % NonceSpace) \div (ByteMod ^ (i - 1))) % ByteMod]

\* C15: the k-th nonce the generator returns is the little-endian k - 1,
\* starting with the all-zero nonce and wrapping round; the k-th frame of the
\* writer is sealed with it, the reader opens its k-th frame with it, and no
\* frame fails to open.
C15_NonceLockstep ==
    aw.mode # "none" =>
        /\ \A k \in DOMAIN aw.frames : aw.frames[k].sealed.iv = NonceOf(k)
        /\ aw.gen = NonceOf(Len(aw.frames))
        /\ ar.gen = NonceOf(Len(ar.reads))
        /\ ~ar.err
        /\ \A k \in DOMAIN ar.reads : ar.reads[k] = aw.frames[k].sealed.plain

\* The nonces have gone once round: the frame after the last nonce was sealed
\* with the all-zero nonce again, and the reader has opened it.
C15_Witness ==
    /\ Len(aw.frames) > NonceSpace
    /\ aw.frames[1].sealed.iv = [i \in 1..NonceSize |-> 0]
    /\ aw.frames[2].sealed.iv = [i \in 1..NonceSize |-> IF i = 1 THEN 1 ELSE 0]
    /\ aw.frames[ByteMod + 1].sealed.iv = [i \in 1..NonceSize |-> IF i = 2 THEN 1 ELSE 0]
    /\ aw.frames[NonceSpace + 1].sealed.iv = [i \in 1..NonceSize |-> 0]
    /\ Len(ar.reads) = NonceSpace + 1

\* ------------------------------------------------------------------------
\* shadowsocks: claims
\* ------------------------------------------------------------------------

Accepted == ss.pc = "done" /\ ss.res.err = ""

Unchanged == ss.wire.body = ss.wire.sealed

\* The request's option is one the account's OneTimeAuth allows.
Allowed(account, ota) ==
    /\ ota => account.ota # "Disabled"
    /\ ~ota => account.ota # "Enabled"

\* C16 as stated: whatever the cipher, an accepted request has the
\* OneTimeAuth option set if the account has OneTimeAuth Enabled and clear if
\* it has OneTimeAuth Disabled.
C16_PolicyAnyCipher ==
    Accepted =>
        /\ ss.account.ota = "Enabled" => ss.res.ota
        /\ ss.account.ota = "Disabled" => ~ss.res.ota

\* C16, amended: with a cipher that is not AEAD, an accepted request has the
\* option set if the account has OneTimeAuth Enabled and clear if Disabled,
\* and the request that arrives as it was written with an option the account
\* does not allow is rejected; with an AEAD cipher an accepted request has
\* the option clear whatever the account says.
C16_PolicyNonAEAD ==
    ss.pc = "done" =>
        /\ (Accepted /\ ~ss.account.aead) =>
              /\ ss.account.ota = "Enabled" => ss.res.ota
              /\ ss.account.ota = "Disabled" => ~ss.res.ota
        /\ (~ss.account.aead /\ Unchanged /\ ~Allowed(ss.account, ss.request.ota)) =>
              ss.res.err # ""
        /\ (Accepted /\ ss.account.aead) => ~ss.res.ota

\* Requests accepted under Enabled with the option set, by ReadTCPSession or
\* by DecodeUDPPacket; the other state is a request rejected for its option.
C16_Witness ==
    /\ ss.pc = "done" /\ ~ss.account.aead
    /\ \/ Accepted /\ ss.account.ota = "Enabled" /\ ss.res.ota /\ ss.proto = "udp"
       \/ ~Accepted /\ ss.account.ota = "Disabled" /\ ss.request.ota
            /\ Unchanged /\ ss.proto = "tcp"

RoundTripTCP ==
    /\ ss.res.err = ""
    /\ ss.res.address = ss.given.address
    /\ ss.res.port = ss.given.port
    /\ ss.res.version = 1
    /\ ss.res.command = "TCP"

\* C17 as stated: the header WriteTCPRequest wrote is read by ReadTCPSession
\* under the same account as a request with the same address and port,
\* Version 1 and Command TCP; with an AEAD cipher the request read has the
\* option clear and so has the caller's request after WriteTCPRequest.
C17_RoundTripTCPAny ==
    (ss.pc = "done" /\ ss.proto = "tcp" /\ Unchanged) =>
        /\ RoundTripTCP
        /\ ss.account.aead => (~ss.res.ota /\ ~ss.request.ota)

\* C17, amended: the same, for a request whose option the account allows or
\* an account with an AEAD cipher; a request whose option the account does
\* not allow is written as it is and rejected by ReadTCPSession. Without
\* AEAD the request read has the option the caller's request has.
C17_RoundTripTCPAllowed ==
    (ss.pc = "done" /\ ss.proto = "tcp" /\ Unchanged) =>
        /\ (ss.account.aead \/ Allowed(ss.account, ss.given.ota)) => RoundTripTCP
        /\ ss.account.aead => (~ss.res.ota /\ ~ss.request.ota)
        /\ ~ss.account.aead =>
              /\ ss.request.ota = ss.given.ota
              /\ Allowed(ss.account, ss.given.ota) => ss.res.ota = ss.given.ota
              /\ ~Allowed(ss.account, ss.given.ota) => ss.res.err # ""

\* A request for a domain with the option set by the caller, written and
\* read under an AEAD account: read with the option clear, and cleared on
\* the caller's request.
C17_Witness ==
    /\ ss.pc = "done" /\ ss.proto = "tcp" /\ Unchanged
    /\ ss.account.aead /\ ss.given.ota /\ ~ss.request.ota
    /\ RoundTripTCP /\ ~ss.res.ota
    /\ ss.res.address.family = "Domain" /\ ss.res.port = 443

DecodedUDP == ss.pc = "done" /\ ss.proto = "udp" /\ ~ss.account.aead /\ ss.given.ota

MACOf(body) == SubSeq(body, Len(body) - AuthSize + 1, Len(body))

NoMAC(body) == SubSeq(body, 1, Len(body) - AuthSize)

RoundTripUDP ==
    /\ ss.res.payload = ss.payload
    /\ ss.res.address = ss.given.address
    /\ ss.res.port = ss.given.port

\* C18 as stated: a packet encoded with the option set under a cipher that is
\* not AEAD is accepted only if its last AuthSize bytes are the HMAC of the
\* bytes before them; a packet changed anywhere fails with 'invalid OTA'; an
\* accepted packet gives the payload, address and port that were encoded.
C18_InvalidOTAOnAnyChange ==
    DecodedUDP =>
        /\ ss.res.err = "" =>
              MACOf(ss.wire.body) = Authenticate(Key, ss.wire.iv, NoMAC(ss.wire.body))
        /\ ~Unchanged => ss.res.err = "invalid OTA"
        /\ ss.res.err = "" => RoundTripUDP

\* C18, amended: a packet that arrives with the OTA bit of its first byte set
\* is accepted only if its last AuthSize bytes are the HMAC of the bytes
\* before them, and then gives the payload, address and port that were
\* encoded, without the MAC; unless the account has OneTimeAuth Disabled, a
\* packet changed anywhere, with that bit still set, fails with 'invalid
\* OTA', and the packet that was not changed is accepted. A packet whose bit
\* was cleared on the way is rejected for its option if the account has
\* OneTimeAuth Enabled, and is not checked against the HMAC otherwise.
C18_InvalidOTAWhileMarked ==
    DecodedUDP =>
        /\ HasOTABit(ss.wire.body[1]) =>
              /\ ss.res.err = "" =>
                    /\ MACOf(ss.wire.body)
                          = Authenticate(Key, ss.wire.iv, NoMAC(ss.wire.body))
                    /\ Unchanged
                    /\ RoundTripUDP
                    /\ ss.res.ota
              /\ (~Unchanged /\ ss.account.ota # "Disabled") =>
                    ss.res.err = "invalid OTA"
              /\ (Unchanged /\ ss.account.ota # "Disabled") => ss.res.err = ""
              /\ ss.account.ota = "Disabled" =>
                    ss.res.err \notin {"", "invalid OTA"}
        /\ ~HasOTABit(ss.wire.body[1]) =>
              /\ ss.account.ota = "Enabled" => ss.res.err \notin {"", "invalid OTA"}
              /\ ss.res.err # "invalid OTA"

\* A packet with a payload whose MAC was changed on the way has failed with
\* 'invalid OTA'.
C18_Witness ==
    /\ DecodedUDP /\ ss.payload # <<>> /\ ss.changes = 1
    /\ NoMAC(ss.wire.body) = NoMAC(ss.wire.sealed)
    /\ MACOf(ss.wire.body) # MACOf(ss.wire.sealed)
    /\ ss.res.err = "invalid OTA"

\* ------------------------------------------------------------------------
\* socks.Server: claims
\* ------------------------------------------------------------------------

\* The policy the connection's timeouts come from.
EffectivePolicy == ServerPolicy(sk.config)

Overrides == sk.config.UserLevel = 0 /\ sk.config.Timeout > 0

\* C19: the policy of the server is ForLevel(UserLevel), but for
\* ConnectionIdle, which is Timeout seconds exactly when UserLevel is 0 and
\* Timeout is positive; the timer of a connection runs with these timeouts.
C19_PolicyOverride ==
    sk.pc # "new" =>
        /\ EffectivePolicy.Handshake = ForLevel(sk.config.UserLevel).Handshake
        /\ EffectivePolicy.UplinkOnly = ForLevel(sk.config.UserLevel).UplinkOnly
        /\ EffectivePolicy.DownlinkOnly = ForLevel(sk.config.UserLevel).DownlinkOnly
        /\ Overrides => EffectivePolicy.ConnectionIdle = sk.config.Timeout
        /\ ~Overrides =>
              EffectivePolicy.ConnectionIdle = ForLevel(sk.config.UserLevel).ConnectionIdle
        /\ sk.config.UserLevel # 0 => EffectivePolicy = ForLevel(sk.config.UserLevel)
        /\ (sk.pc = "dispatch" /\ Overrides) => sk.timeout = sk.config.Timeout
        /\ (sk.pc = "dispatch" /\ ~Overrides) =>
              sk.timeout = ForLevel(sk.config.UserLevel).ConnectionIdle
        /\ (sk.pc = "wait" /\ sk.events = <<"requestOK">>) =>
              sk.timeout = ForLevel(sk.config.UserLevel).DownlinkOnly

\* A connection of a server of level 0 with a legacy Timeout: its timer runs
\* with Timeout seconds, not with the level's ConnectionIdle.
C19_Witness ==
    /\ sk.pc = "wait" /\ sk.events = <<>>
    /\ sk.config.UserLevel = 0 /\ sk.config.Timeout = MaxTimeout
    /\ sk.timeout = MaxTimeout
    /\ sk.timeout # ForLevel(0).ConnectionIdle

\* What has happened holds an error of a copy or the cancellation before
\* both copies have finished.
RECURSIVE FailsFirst(_, _)
FailsFirst(events, finished) ==
    /\ events # <<>>
    /\ finished < 2
    /\ \/ Head(events) \in {"requestErr", "responseErr", "cancel"}
       \/ /\ Head(events) \in {"requestOK", "responseOK"}
          /\ FailsFirst(Tail(events), finished + 1)

\* C20: once transport has returned from a connection that has a ray, it has
\* returned an error and called CloseError on the input and on the output if
\* a copy failed or the context was cancelled before both copies had
\* finished; otherwise it has returned nil, both copies have finished without
\* error and CloseError was called on neither. Before it returns, CloseError
\* is called on neither.
C20_CloseErrorOnFirstError ==
    /\ (sk.pc = "returned" /\ sk.input # "none") =>
          /\ FailsFirst(sk.events, 0) =>
                /\ sk.ret = "error"
                /\ sk.inputCloseError /\ sk.outputCloseError
                /\ sk.input = "ClosedErr" /\ sk.output = "ClosedErr"
          /\ ~FailsFirst(sk.events, 0) =>
                /\ sk.ret = "nil"
                /\ sk.request = "ok" /\ sk.response = "ok"
                /\ ~sk.inputCloseError /\ ~sk.outputCloseError
                /\ sk.input = "ClosedOK" /\ sk.output = "Open"
    /\ sk.pc # "returned" => (~sk.inputCloseError /\ ~sk.outputCloseError)
    /\ (sk.pc = "wait" /\ FailsFirst(sk.events, 0)) => ENABLED TransportReturn

\* The request copy has finished, then the response copy has failed:
\* transport has returned an error and closed both endpoints with CloseError.
C20_Witness ==
    /\ sk.pc = "returned"
    /\ sk.events = <<"requestOK", "responseErr">>
    /\ sk.ret = "error"
    /\ sk.inputCloseError /\ sk.outputCloseError

\* ------------------------------------------------------------------------
\* Properties of the tasks of one mux.Client
\* ------------------------------------------------------------------------
\* What monitor does on `<-m.done.C()`: no session is left, the session
\* manager is closed, the inbound ray's Input is closed and its Output is
\* closed with an error.
TornDown(c) ==
    /\ cl[c].sm.sessions = {}
    /\ cl[c].sm.closed
    /\ cl[c].inputClosed
    /\ cl[c].outputErr

\* C21: whenever the Done latch of a Client is closed, by whatever path, the
\* client eventually has no session left, its inbound ray's Input closed and
\* its inbound ray's Output closed with an error.
C21_DoneTearsDown ==
    \A c \in ClientIds :
        (c \in DOMAIN cl /\ cl[c].done) ~> (c \in DOMAIN cl /\ TornDown(c))

\* A Dispatch call on the Client that has not yet passed `m.done.Done()`.
BeforeDoneCheck == disp.c = 1 /\ disp.st \in {"size", "done"}

C22_State ==
    /\ dl.proc # "run" => cl[1].done
    /\ dl.fo # "run" => cl[1].done

C22_Step ==
    /\ cl[1].done => cl'[1].done
    /\ (dl.proc = "run" /\ dl'.proc # "run") => cl'[1].done
    /\ (dl.fo = "run" /\ dl'.fo # "run") => cl'[1].done
    /\ (BeforeDoneCheck /\ cl[1].done) =>
          /\ disp'.st \in {"size", "done", "idle"}
          /\ disp'.st = "size" => disp' = disp
          /\ dlog'.accepted = {}
          /\ Count(cl'[1].sm) = Count(cl[1].sm)
          /\ cl'[1].sm.sessions \subseteq cl[1].sm.sessions
          /\ cl'[1].tasks = cl[1].tasks

\* C22: the Done latch of a Client is closed once Process has returned, with
\* an error or without, and once fetchOutput has exited, for whatever reason;
\* a closed latch stays closed; a Client.Dispatch call that comes to the
\* check of the latch after it was closed returns false: it allocates no
\* session and starts no task.
C22_DoneOneShot == []C22_State /\ [][C22_Step]_vars

\* fetchOutput has exited on a frame with an unknown status while Process
\* was running, and a Dispatch call made after that was declined by a client
\* that had room for a session.
C22_Witness ==
    /\ dl.fo = "unknown status"
    /\ dl.proc = "run"
    /\ cl[1].done
    /\ disp.st = "idle"
    /\ dispatched = 2
    /\ dlog.declined = <<1>>
    /\ dlog.accepted = {}
    /\ Size(cl[1].sm) = 1
    /\ concurrency = 2

\* The monitor of c has taken the idle path: CloseIfNoSession() has returned
\* true on a tick, and the monitor closes Done and returns without the
\* teardown of the done case.
IdlePath(c) == cl[c].mon \in {"reap", "finish", "exited"} /\ ~cl[c].inputClosed

\* A session of c was allocated after the latest tick of c's monitor began
\* (Allocate resets the count of idle ticks, a tick raises it).
AcceptedInTick(c) == cl[c].idleTicks = 0 /\ Count(cl[c].sm) > 0

\* C23 as stated, its part about states: a client that accepted a dispatch
\* during a tick is not reaped at that tick; the monitor on the idle path
\* has found no session, and the session manager is drained.
C23_AcceptOrReap ==
    \A c \in DOMAIN cl :
        /\ AcceptedInTick(c) => ~IdlePath(c)
        /\ IdlePath(c) => cl[c].sm.sessions = {} /\ cl[c].sm.closed

C23_State ==
    \A c \in DOMAIN cl :
        IdlePath(c) => cl[c].sm.sessions = {} /\ cl[c].sm.closed

C23_Step ==
    \A c \in DOMAIN cl :
        /\ (cl[c].mon = "tick" /\ cl'[c].mon # "tick") =>
              IF cl[c].sm.sessions # {}
                THEN cl'[c] = [cl[c] EXCEPT !.mon = "select"]
                ELSE /\ cl'[c].mon = "reap"
                     /\ cl'[c].sm.closed
                     /\ cl'[c].sm.sessions = {}
        /\ (cl[c].mon = "reap" /\ cl'[c].mon # "reap") =>
              /\ cl'[c].done
              /\ cl[c].sm.sessions = {}
              /\ cl[c].sm.closed
        /\ cl[c].sm.closed =>
              /\ cl'[c].sm.closed
              /\ cl'[c].sm.sessions \subseteq cl[c].sm.sessions
              /\ Count(cl'[c].sm) = Count(cl[c].sm)
        /\ (disp.c = c /\ disp.st = "alloc" /\ disp' # disp) =>
              IF cl[c].sm.closed
                THEN /\ dlog'.declined = Append(dlog.declined, c)
                     /\ dlog'.accepted = {}
                     /\ cl' = cl
                ELSE /\ dlog'.accepted = {c}
                     /\ Size(cl'[c].sm) = Size(cl[c].sm) + 1
                     /\ ~IdlePath(c)

\* C23, amended: a tick whose CloseIfNoSession finds an active session does
\* not reap the client and changes nothing; one that finds none drains the
\* session manager, and Done is then closed; the monitor closes Done through
\* the idle path only with no session and a drained manager; a drained
\* manager stays drained and gets no session; a Dispatch call that comes to
\* Allocate is declined if the manager is drained and accepted otherwise.
C23_TickOrDispatch == []C23_State /\ [][C23_Step]_vars

\* A tick has found Size() = 0, a Dispatch call then got its session, and
\* CloseIfNoSession has not run yet.
C23_Witness ==
    \E c \in DOMAIN cl :
        /\ cl[c].mon = "tick"
        /\ AcceptedInTick(c)
        /\ Size(cl[c].sm) = 1
        /\ dlog.accepted = {c}

\* C24: ClientManager.Dispatch has no return but nil (NewClient gives no
\* error), so every call that has returned has attached its ray to a session
\* of exactly one client.
C24_AttachedOrError ==
    (disp.st = "idle" /\ dispatched > 0) =>
        /\ Cardinality(dlog.accepted) = 1
        /\ ~dlog.dropped

\* fetchOutput reads the next frame where the handled one ended.
Aligned == dl.fo = "run" => dl.unread = 0

C25_Step ==
    LET f == dl'.last
        g == Get(cl[1].sm, f.id)
        known == f.status \in {"Keep", "End"} /\ g.found
    IN  (dl'.nread = dl.nread + 1 /\ f.status # "Unknown") =>
           \* the sessions
           /\ (f.status = "End" /\ g.found) =>
                 cl'[1].sm = [cl[1].sm EXCEPT !.sessions = {x \in @ : x.id # f.id}]
           /\ ~(f.status = "End" /\ g.found) => cl'[1].sm = cl[1].sm
           /\ dl'.to # 0 =>
                 /\ f.status = "Keep" /\ f.data /\ g.found
                 /\ dl'.to = g.ray
           \* the client
           /\ dl'.fo \in {"run", "handler"}
           /\ dl'.fo = "handler" => f.data /\ dl'.unread = dl.unread + 1
           /\ dl'.fo = "run" => cl'[1].done = cl[1].done
           \* the reader
           /\ dl'.fo = "run" => dl'.unread = dl.unread

\* C25: a frame of a known status handled by fetchOutput changes no session
\* but the one an End frame names, gives its body to no output but that of
\* the session a Keep frame names, ends the client only when its body cannot
\* be read, not when the write to the session's output fails, and leaves the
\* reader at the start of the next frame: the body is read exactly when the
\* frame has OptionData.
C25_FramesKeepApart == []Aligned /\ [][C25_Step]_vars

\* The second frame read is a Keep frame with a body for an ID that no
\* session has, while the client has a session; fetchOutput goes on.
C25_Witness ==
    /\ dl.nread = 2
    /\ dl.last.status = "Keep"
    /\ dl.last.data
    /\ ~Get(cl[1].sm, dl.last.id).found
    /\ Size(cl[1].sm) = 1
    /\ dl.fo = "run"
    /\ ~cl[1].done


\* ------------------------------------------------------------------------
\* Properties of the termination of a mux.ServerWorker
\* ------------------------------------------------------------------------
\* The errors of handleFrame that are not the end of the stream.
FrameErrors == {"metadata", "unknown status", "dispatch"}

\* run has returned.
RunReturned(w) == w.st \in {"failed", "done"}

\* C26, in a state: a ServerWorker that has terminated did so on
\* cancellation, on the end of the stream or on an error of handleFrame; its
\* session manager is closed and holds no session; its input is error-closed
\* exactly if it ended on an error that is not the end of the stream.  A
\* worker that still runs has not error-closed its input.
C26_State ==
    /\ RunReturned(wk) =>
          /\ wk.exit \in {"cancel", "EOF"} \cup FrameErrors
          /\ wk.sm.closed /\ wk.sm.sessions = {}
          /\ wk.inputErr <=> wk.exit \in FrameErrors
    /\ ~RunReturned(wk) => (wk.exit = "" /\ ~wk.inputErr)

\* C26, in a step: the step in which run returns closes every session the
\* manager holds and leaves none of their handle tasks registered; when the
\* error is a failed dispatch, the New frame has been read to its end; a frame
\* handled without error does not end the worker.
C26_Step ==
    /\ (wk.st = "run" /\ RunReturned(wk')) =>
          /\ \A x \in wk.sm.sessions :
                /\ wk'.rays[x.ray].closed
                /\ ~\E t \in wk'.tasks : t.ray = x.ray
          /\ wk'.exit = "dispatch" =>
                /\ wk'.nread = wk.nread + 1
                /\ wk'.last.status = "New"
                /\ wk'.calls # <<>> /\ ~wk'.calls[Len(wk'.calls)].ok
    /\ (wk.st = "run" /\ wk'.nread = wk.nread + 1 /\ wk'.exit # "dispatch") =>
          wk'.st = "run"

Called(e, how) == \E i \in 1..Len(hd.calls) : hd.calls[i] = <<e, how>>

\* C27: when Handler.Dispatch has returned without mux, OutboundOutput is
\* closed with Close exactly if Process returned nil or an error whose cause
\* is EOF, with CloseError exactly otherwise, and OutboundInput is closed with
\* CloseError; with mux, OutboundOutput is closed with CloseError exactly if
\* ClientManager.Dispatch returned an error, and the handler closes nothing
\* else.
C27_Returned ==
    hd.pc = "returned" =>
        IF hd.mux
          THEN /\ Called("output", "CloseError") <=> hd.err # <<>>
               /\ hd.err # <<>> => hd.output.err
               /\ ~Called("output", "Close")
               /\ ~Called("input", "Close") /\ ~Called("input", "CloseError")
          ELSE LET normal == hd.err = <<>> \/ hd.err[Len(hd.err)] = "EOF"
               IN  /\ Called("output", "Close") <=> normal
                   /\ Called("output", "CloseError") <=> ~normal
                   /\ normal => hd.output.closed
                   /\ ~normal => hd.output.err
                   /\ Called("input", "CloseError") /\ hd.input.err
                   /\ ~Called("input", "Close")

\* C27, before the return: the handler has closed nothing.
C27_NothingBefore == hd.pc # "returned" => hd.calls = <<>>

\* C27: Handler.Dispatch closes the ends of its ray when it returns, and as
\* the error of Process or of ClientManager.Dispatch decides.
C27_DispatchCloses == C27_Returned /\ C27_NothingBefore

\* Process returned an error that wraps EOF after data moved both ways: the
\* output is closed with Close, the input with CloseError.
C27_Witness ==
    /\ hd.pc = "returned" /\ ~hd.mux
    /\ Len(hd.err) = 2 /\ hd.err[2] = "EOF"
    /\ hd.up > 0 /\ hd.down > 0
    /\ hd.calls = <<<<"output", "Close">>, <<"input", "CloseError">>>>


\* ------------------------------------------------------------------------
\* Properties of the half-close of the SOCKS transport
\* ------------------------------------------------------------------------
\* The timeouts of the server's user level.
LevelTimeouts == ForLevel(sk.config.UserLevel)

\* C28, in a step that ends the request task: the ray's input is closed
\* after it; without error the timeout is DownlinkOnly and the response task
\* is where it was; with an error the timeout is unchanged.
C28_RequestEnds ==
    (sk.request = "run" /\ sk'.request # "run") =>
        /\ sk'.input \in {"ClosedOK", "ClosedErr"}
        /\ sk.input = "Open" => sk'.input = "ClosedOK"
        /\ sk'.response = sk.response
        /\ sk'.request = "ok" => sk'.timeout = LevelTimeouts.DownlinkOnly
        /\ sk'.request = "err" => sk'.timeout = sk.timeout

\* C28, in a step that ends the response task: without error the timeout is
\* UplinkOnly; with an error the timeout is unchanged; the request task and
\* the ray's input are where they were.
C28_ResponseEnds ==
    (sk.response = "run" /\ sk'.response # "run") =>
        /\ sk'.request = sk.request /\ sk'.input = sk.input
        /\ sk'.response = "ok" => sk'.timeout = LevelTimeouts.UplinkOnly
        /\ sk'.response = "err" => sk'.timeout = sk.timeout

\* C28: the request task closes the ray's input however it ends; a copy that
\* ends without error sets the timeout of the other direction and leaves the
\* other copy running; a copy that ends with an error leaves the timeout.
C28_HalfClose ==
    /\ [](sk.request \in {"ok", "err"} => sk.input # "Open")
    /\ [][C28_RequestEnds /\ C28_ResponseEnds]_vars

\* The request copy has ended without error while the response copy runs and
\* transport still waits: the input is closed, the timeout is the
\* DownlinkOnly of a level above 0.
C28_Witness ==
    /\ sk.pc = "wait" /\ sk.request = "ok" /\ sk.response = "run"
    /\ sk.input = "ClosedOK"
    /\ sk.config.UserLevel > 0
    /\ sk.timeout = LevelTimeouts.DownlinkOnly


\* ------------------------------------------------------------------------
\* Properties of the inactivity timer of the SOCKS transport
\* ------------------------------------------------------------------------
\* transport has returned an error after closing both ends of the ray with
\* CloseError.
EndedWithError ==
    /\ sk.pc = "returned" /\ sk.ret = "error"
    /\ sk.inputCloseError /\ sk.outputCloseError

\* C29, in a state: the timer has fired only with the context cancelled and
\* after as many seconds without activity as the timeout in effect; once
\* transport has returned after that, it has returned an error and closed
\* both ends with CloseError.
C29_State ==
    tm.fired =>
        /\ \E i \in DOMAIN sk.events : sk.events[i] = "cancel"
        /\ sk.pc = "returned" => EndedWithError

\* C29, in a step: the timer fires only when the seconds without activity
\* have reached the timeout in effect; a buffer moved by either copy sets
\* them to 0 and does not cancel the context.
C29_Step ==
    /\ (~tm.fired /\ tm'.fired) => tm'.quiet >= sk.timeout
    /\ tm'.moved # tm.moved =>
          /\ tm'.quiet = 0 /\ ~tm'.fired
          /\ sk'.events = sk.events

ChunkCount(l) == IF l = 0 THEN 1 ELSE (l + PayloadSize - 1) \div PayloadSize

\* The bytes of a frame on the wire: the size field and the sealed payload.
FrameBytes(f) == SizeBytes + f.size

\* C30, in a state: every frame of a stream-mode writer is at most buf.Size
\* bytes, its size field is the length of its plain text plus the overhead,
\* and its plain text is at most buf.Size - overhead - sizeBytes bytes.
C30_State ==
    aw.mode = "Stream" =>
        \A i \in DOMAIN aw.frames :
            /\ FrameBytes(aw.frames[i]) <= BufSize
            /\ aw.frames[i].size = Len(aw.frames[i].sealed.plain) + Overhead
            /\ Len(aw.frames[i].sealed.plain) <= BufSize - Overhead - SizeBytes

\* C30, in a step that writes a MultiBuffer in stream mode: a MultiBuffer of
\* L > 0 bytes gives ceil(L / chunk) frames that hold its bytes in order, all
\* but the last of them full, and none of them the end-of-stream frame; an
\* empty MultiBuffer gives the one frame whose size is the overhead.
C30_Step ==
    (aw.mode = "Stream" /\ Len(aw'.writes) = Len(aw.writes) + 1) =>
        LET l == Sum(aw'.writes[Len(aw'.writes)])
            old == Len(aw.frames)
            added == Len(aw'.frames) - old
            bytes == SubSeq(aw'.written, Len(aw.written) + 1, Len(aw'.written))
        IN  /\ Len(bytes) = l
            /\ added = ChunkCount(l)
            /\ SubSeq(aw'.frames, 1, old) = aw.frames
            /\ \A k \in 1..added :
                  LET f == aw'.frames[old + k]
                      from == (k - 1) * PayloadSize
                      to == IF k < added THEN k * PayloadSize ELSE l
                  IN  /\ f.sealed.plain = SubSeq(bytes, from + 1, to)
                      /\ l > 0 => f.size > Overhead
                      /\ l = 0 => (f.size = Overhead /\ FrameBytes(f) = SizeBytes + Overhead)

\* C30: a stream-mode writer cuts each MultiBuffer into consecutive chunks
\* of at most buf.Size - overhead - sizeBytes bytes, one frame of at most
\* buf.Size bytes each; data gives ceil(L / chunk) frames and no
\* end-of-stream frame, an empty MultiBuffer gives one frame of the size of
\* the overhead.
C30_StreamChunks == []C30_State /\ [][C30_Step]_vars

\* A MultiBuffer of more bytes than a chunk and an empty one have been
\* written in stream mode: two frames, then the end-of-stream frame.
C30_Witness ==
    /\ aw.mode = "Stream"
    /\ aw.writes = <<<<PayloadSize + 1>>, <<>>>>
    /\ Len(aw.frames) = 3
    /\ aw.frames[1].size = PayloadSize + Overhead
    /\ aw.frames[2].size = 1 + Overhead
    /\ aw.frames[3].size = Overhead


\* ------------------------------------------------------------------------
\* Properties of the chunk codec when its cryptography fails
\* ------------------------------------------------------------------------
\* C31, in a step that reads a frame which is not the end-of-stream marker:
\* if the frame was changed on its way, or was sealed under another nonce
\* than the reader's next one, or that nonce has not NonceSize bytes,
\* ReadMultiBuffer returns an error and no plain text; otherwise it returns
\* the frame's plain text.
C31_ReadStep ==
    (ar'.pos = ar.pos + 1 /\ aw.frames[ar'.pos].size # Overhead) =>
        LET f == aw.frames[ar'.pos]
            iv == NonceNext(ar.gen)
            bad == Tampered(f) \/ Len(iv) # NonceSize \/ f.sealed.iv # iv
        IN  /\ bad => (ar'.err /\ ar'.got = ar.got /\ ar'.reads = ar.reads)
            /\ ~bad => (~ar'.err /\ ar'.reads = Append(ar.reads, f.sealed.plain))

\* C31, in a step that writes a MultiBuffer: if the seal of one of its
\* chunks fails, WriteMultiBuffer returns the error and the writer underneath
\* has got no frame of it; otherwise it has got at least one.  In stream mode
\* a seal fails exactly if the nonces have not NonceSize bytes or the
\* Authenticator fails before the last chunk is sealed.
C31_WriteStep ==
    Len(aw'.writes) = Len(aw.writes) + 1 =>
        LET l == Sum(aw'.writes[Len(aw'.writes)])
            fails == \/ Len(NonceNext(aw.gen)) # NonceSize
                     \/ aw.sealLeft >= 0 /\ aw.sealLeft < ChunkCount(l)
        IN  /\ aw'.err => (aw'.frames = aw.frames /\ aw'.written = aw.written)
            /\ ~aw'.err => Len(aw'.frames) > Len(aw.frames)
            /\ aw.mode = "Stream" => (aw'.err <=> fails)

\* C31: the reader gives no plain text of a frame whose Open fails, and the
\* writer puts no frame of a MultiBuffer on the writer underneath when the
\* seal of one of its chunks fails.
C31_NoDataOnCryptoFailure ==
    /\ [](ar.err => Len(ar.reads) < ar.pos)
    /\ [][C31_ReadStep /\ C31_WriteStep]_vars

\* A stream-mode writer whose Authenticator fails its third Seal: the first
\* MultiBuffer gave one frame, the second failed on its second chunk and left
\* no frame; the one frame was changed on its way and the reader returned an
\* error for it.
C31_Witness ==
    /\ aw.mode = "Stream" /\ aw.writes = <<<<1>>, <<PayloadSize + 1>>>>
    /\ aw.err /\ aw.sealLeft = 0 /\ Len(aw.frames) = 1
    /\ Tampered(aw.frames[1])
    /\ ar.err /\ ar.pos = 1 /\ ar.got = <<>>


\* ------------------------------------------------------------------------
\* Properties of inbound.Manager with two handlers of one tag
\* ------------------------------------------------------------------------
\* Handlers i and j, added in this order, carry the same tag, which is not
\* empty.
SameTag(i, j) ==
    /\ i \in 1..Len(addLog) /\ j \in 1..Len(addLog) /\ i < j
    /\ addLog[i] # "" /\ addLog[i] = addLog[j]

\* The handler added last with the tag.
LastWith(tag) ==
    CHOOSE k \in 1..Len(addLog) :
        /\ addLog[k] = tag
        /\ \A n \in (k + 1)..Len(addLog) : addLog[n] # tag

\* C32, in a state: of two handlers with one tag both are in the list, at
\* the places they were added at, and GetHandler finds under the tag the
\* handler added last with it.
C32_State ==
    \A i, j \in 1..Len(addLog) :
        SameTag(i, j) =>
            /\ Len(handlers) = Len(addLog)
            /\ handlers[i] = [id |-> i, tag |-> addLog[i]]
            /\ handlers[j] = [id |-> j, tag |-> addLog[j]]
            /\ GetHandler(taggedHandlers, addLog[j]).found
            /\ GetHandler(taggedHandlers, addLog[j]).handler = LastWith(addLog[j])

\* C32, in a step: an AddHandler call with a tag that is taken adds its
\* handler like any other and changes the map to it; a GetHandler call for
\* a tag of two handlers returns the one added last; a Start that returns nil
\* has started both handlers of one tag, a Start that returns an error has
\* called them as far as the first failure, and a Close has closed both.
C32_Step ==
    /\ Len(addLog') = Len(addLog) + 1 =>
          LET k == Len(addLog')
          IN  /\ handlers' = Append(handlers, [id |-> k, tag |-> addLog'[k]])
              /\ addLog'[k] # "" =>
                    GetHandler(taggedHandlers', addLog'[k]) =
                        [found |-> TRUE, handler |-> k]
    /\ lastGet' # lastGet =>
          \A i, j \in 1..Len(addLog) :
              (SameTag(i, j) /\ lastGet'.tag = addLog[j]) =>
                  /\ lastGet'.found
                  /\ lastGet'.handler = LastWith(addLog[j])
                  /\ lastGet'.handler # i
    /\ mCalls' = mCalls + 1 =>
          \A i, j \in 1..Len(addLog) :
              SameTag(i, j) =>
                  /\ (mOp' = "Start" /\ mRes' = "nil") =>
                        /\ i \in SeqRange(mInvoked') /\ j \in SeqRange(mInvoked')
                        /\ hState'[i] = "started" /\ hState'[j] = "started"
                  /\ (mOp' = "Start" /\ mRes' = "err") =>
                        /\ j \in SeqRange(mInvoked') => i \in SeqRange(mInvoked')
                        /\ i \in SeqRange(mInvoked') =>
                              hState'[i] \in {"started", "failed"}
                  /\ mOp' = "Close" =>
                        /\ i \in SeqRange(mInvoked') /\ j \in SeqRange(mInvoked')
                        /\ hState'[i] = "closed" /\ hState'[j] = "closed"

\* C32: a second handler with a tag that is taken is added without error;
\* the tag then maps to the handler added last, and both handlers stay in the
\* list, where Start and Close treat them as they treat every handler.
C32_DuplicateTag == []C32_State /\ [][C32_Step]_vars

\* Two handlers with the tag "a" were added, GetHandler("a") gave the second,
\* Start started both and Close closed both.
C32_Witness ==
    /\ Len(addLog) >= 2 /\ SameTag(1, 2) /\ addLog[1] = "a"
    /\ lastGet = [tag |-> "a", found |-> TRUE, handler |-> 2]
    /\ mCalls = 2 /\ mOp = "Close" /\ mRes = "nil"
    /\ hState[1] = "closed" /\ hState[2] = "closed"

\* ------------------------------------------------------------------------
\* Shadowsocks: headers and packets that no client of this code writes
\* ------------------------------------------------------------------------

ReadDone == ss.pc = "done" /\ ss.proto = "tcp"

\* The low four bits of the first byte are none of the three address types.
UnknownType(body) ==
    body[1].v % 16 \notin {AddrTypeIPv4, AddrTypeIPv6, AddrTypeDomain}

\* The header's option is one the account takes: any with an AEAD cipher,
\* which has no option; else not set under Disabled, not clear under Enabled.
OptionTaken(account, body) ==
    \/ account.aead
    \/ /\ HasOTABit(body[1]) => account.ota # "Disabled"
       /\ ~HasOTABit(body[1]) => account.ota # "Enabled"

\* What ReadTCPSession owes a header of an unknown type whose option the
\* account takes: such a header has no address bytes, so the port is bytes 2
\* and 3 and the MAC the AuthSize bytes after them.
OwedUnknown(account, pkt) ==
    LET body == pkt.body
        ota == ~account.aead /\ HasOTABit(body[1])
    IN  IF Len(body) < 3
          THEN "failed to read port"
        ELSE IF ota /\ Len(body) < 3 + AuthSize
          THEN "Failed to read OTA"
        ELSE IF ota /\ SubSeq(body, 4, 3 + AuthSize)
                         # Authenticate(Key, pkt.iv, SubSeq(body, 1, 3))
          THEN "invalid OTA"
        ELSE "invalid remote address."

\* C33: ReadTCPSession returns no request without an address: a request it
\* returns has an IPv4, IPv6 or domain address and came from a header of one
\* of the three types. A header of another type, with an option the account
\* takes, fails with 'invalid remote address.' only after the port was read
\* and, with the OTA bit set, the MAC was read and found right: if the port
\* is missing it fails with 'failed to read port', if the MAC is missing with
\* 'Failed to read OTA', if the MAC is wrong with 'invalid OTA'. 'invalid
\* remote address.' is the error of no other header. Every error comes
\* without a request and without a payload reader.
C33_NoRequestWithoutAddress ==
    ReadDone =>
        /\ ss.res.err = "" =>
              /\ ss.res.address.family \in {"IPv4", "IPv6", "Domain"}
              /\ ss.res.command = "TCP"
              /\ ss.wire.body # <<>>
              /\ ~UnknownType(ss.wire.body)
        /\ ss.res.err # "" => ss.res = Rejected(ss.res.err)
        /\ ss.wire.body # <<>> =>
              /\ (UnknownType(ss.wire.body) /\ OptionTaken(ss.account, ss.wire.body)
                    /\ ~(ss.account.aead /\ Forged(ss.wire)))
                    => ss.res.err = OwedUnknown(ss.account, ss.wire)
              /\ ss.res.err = "invalid remote address." =>
                    /\ UnknownType(ss.wire.body)
                    /\ OwedUnknown(ss.account, ss.wire) = "invalid remote address."
        /\ ss.wire.body = <<>> => ss.res.err = "failed to read address type"

\* A header of an unknown type with the OTA bit set and the right MAC has
\* been read: it failed with 'invalid remote address.', after the MAC.
C33_Witness ==
    /\ ReadDone
    /\ ss.wire.body # <<>>
    /\ UnknownType(ss.wire.body)
    /\ ~ss.account.aead /\ HasOTABit(ss.wire.body[1])
    /\ Len(ss.wire.body) = 3 + AuthSize
    /\ SubSeq(ss.wire.body, 4, 3 + AuthSize)
          = Authenticate(Key, ss.wire.iv, SubSeq(ss.wire.body, 1, 3))
    /\ ss.res = Rejected("invalid remote address.")

DecodeDone == ss.pc = "done" /\ ss.proto = "udp"

\* The decrypted packet without the MAC that its first byte announces.
Announced(account, body) ==
    IF ~account.aead /\ HasOTABit(body[1])
      THEN SubSeq(body, 1, Len(body) - AuthSize)
      ELSE body

\* The packet is too short for what it announces: it is empty, or its first
\* byte has the OTA bit and it is shorter than AuthSize, or nothing is left
\* without the MAC, or its type is one of the three and the address of that
\* type (4, 16, or 1 byte and as many as that byte says) or the 2-byte port
\* after it is not all there.
TooShort(account, body) ==
    \/ body = <<>>
    \/ ~account.aead /\ HasOTABit(body[1]) /\ Len(body) < AuthSize
    \/ Announced(account, body) = <<>>
    \/ /\ ~UnknownType(Announced(account, body))
       /\ Len(Announced(account, body))
             < 1 + AddressLength(Announced(account, body)) + 2

\* The bytes of a packet after its type, address and port.
AfterPort(b) == Values(SubSeq(b, 1 + AddressLength(b) + 3, Len(b)))

\* C34: DecodeUDPPacket ends with an error, and with no access outside the
\* payload, for every decrypted packet that is too short for what it
\* announces; the payload it returns for a packet it accepts is the bytes
\* that follow the port.
C34_ShortPacketIsError ==
    DecodeDone =>
        /\ TooShort(ss.account, ss.wire.body) =>
              /\ ss.res.err # ""
              /\ ss.res # OutOfRange
        /\ ss.res.err = "" =>
              ss.res.payload = AfterPort(Announced(ss.account, ss.wire.body))

\* The part of C34 on accepted packets: the payload returned is the bytes
\* that follow the port, and no packet that is too short is accepted.
C34_PayloadAfterPort ==
    DecodeDone =>
        /\ ss.res.err = "" =>
              /\ ss.res.payload = AfterPort(Announced(ss.account, ss.wire.body))
              /\ ~TooShort(ss.account, ss.wire.body)
        /\ ss.res = OutOfRange => TooShort(ss.account, ss.wire.body)

====
